---- MODULE Spec2Model ----
(***************************************************************************)
(* Land Distance & Area Calculator: the undo/redo manager                  *)
(* (state/UndoRedoManager.js), the application state store                 *)
(* (state/StateManager.js), the project model (models/Project.js), the     *)
(* project-name validation (utils/validation.js) and the persistence       *)
(* manager (state/PersistenceManager.js), as state machines.               *)
(*                                                                         *)
(* JavaScript values are modelled as follows.  null/undefined results are  *)
(* the record Null; an optional field of parsed JSON is a sequence of      *)
(* length 0 (absent) or 1 (present); strings that the code inspects        *)
(* character by character (project names) are sequences of one-character   *)
(* strings; array indices keep their JavaScript (0-based) values.          *)
(***************************************************************************)
EXTENDS Integers, Sequences, FiniteSets, TLC

VARIABLES
  history,        \* UndoRedoManager.history: sequence of entries
  currentIndex,   \* UndoRedoManager.currentIndex (0-based, -1 when empty)
  maxHistory,     \* UndoRedoManager.maxHistory
  isEnabled,      \* UndoRedoManager.isEnabled
  undoNotice,     \* the state object last handed to the undo/redo listeners
  clock,          \* Date.now()
  heap,           \* the Project objects that are still referenced, by reference
  projects,       \* StateManager.state.projects: sequence of references
  currentProject, \* StateManager.state.currentProject: a reference or NoRef
  currentProjectId, \* StateManager.state.currentProjectId: an id or NoId
  settings,       \* StateManager.state.settings: set of <<key, value>>
  isUpdating,     \* StateManager.isUpdating
  notified,       \* the action tags delivered to the listeners by the last operation
  listeners,      \* StateManager.listeners: sequence of listeners
  rounds,         \* the notifyListeners calls in progress, innermost last
  outer,          \* the outermost store operation and what it delivered
  arrays,         \* the point arrays that Measurement objects reference
  measures,       \* the Measurement objects, in order of creation
  room,           \* the space the browser leaves to the application's keys
  timers,         \* the timers of the page that are pending: <<id, due>>
  timeout,        \* debounce's variable timeout: a timer id, or NoTimer
  autoSaveEnabled, \* PersistenceManager.autoSaveEnabled
  inputs,         \* the points that the coordinate fields of the page hold
  lastCalculation, \* LandCalculatorApp.lastCalculation
  handler,        \* the event that the page is handling, or Idle
  handlerArg,     \* the project id that the handler was called with
  storage,        \* localStorage: per key <<>> (absent) or <<value>>
  lastOp,         \* the operation carried out last
  lastArg,        \* its argument
  lastResult,     \* the value it returned
  pre,            \* what the operation found: the state it started from
  scen            \* progress of a push^N undo^(N-1) redo^(N-1) run on a new log

undoVars == <<history, currentIndex, maxHistory, isEnabled, undoNotice>>
notifyVars == <<isUpdating, listeners, rounds, outer>>
modelVars == <<arrays, measures>>
timerVars == <<timers, timeout, autoSaveEnabled>>
appVars == <<inputs, lastCalculation, handler, handlerArg>>
pageVars == <<timerVars, appVars>>
storeVars == <<heap, projects, currentProject, currentProjectId, settings,
               notified, notifyVars, modelVars, room, pageVars>>
obsVars == <<lastOp, lastArg, lastResult, pre>>

----------------------------------------------------------------------------
(* Bounds of the model *)

MaxHistoryArg == 3   \* largest bound handed to the constructor
MaxLog == 4          \* the log grows to at most this length
MaxClock == 1        \* Date.now() takes the values 0..MaxClock
MaxPushRun == 6      \* longest run of pushes that scen counts
MaxDataIndex == 2    \* stored cursors range over -MaxDataIndex..MaxDataIndex
MaxDataBound == 2    \* stored bounds range over 0..MaxDataBound

(* Program constants *)

DefaultMaxHistory == 50

----------------------------------------------------------------------------
(* JavaScript helpers *)

Null == [kind |-> "null"]

Min(a, b) == IF a < b THEN a ELSE b
Max(a, b) == IF a > b THEN a ELSE b

\* Array.prototype.slice(0, end) on a sequence: a negative end counts from
\* the end of the array, and the result is clipped to the array.
SliceTo(arr, end) ==
  LET n == Len(arr)
      e == IF end < 0 THEN Max(n + end, 0) ELSE Min(end, n)
  IN  SubSeq(arr, 1, e)

\* arr[i] for a 0-based index: the element, or undefined
At(arr, i) == IF i >= 0 /\ i < Len(arr) THEN arr[i + 1] ELSE Null

\* JSON.parse(JSON.stringify(state)) of a snapshot {leftInputs, rightInputs}
\* of string arrays: a new object with a new array of the same strings for
\* each side.
JSONCopy(state) ==
  [leftInputs  |-> [i \in 1..Len(state.leftInputs)  |-> state.leftInputs[i]],
   rightInputs |-> [i \in 1..Len(state.rightInputs) |-> state.rightInputs[i]]]

----------------------------------------------------------------------------
(* Inputs *)

\* the snapshots saveStateForUndo hands to push: the raw input texts per side
Snapshots ==
  { [leftInputs |-> <<"0,0", "100,0">>, rightInputs |-> <<"0,50", "100,50">>],
    [leftInputs |-> <<"", "">>,         rightInputs |-> <<"abc, 5">>] }

Actions == {"CALCULATE"}

----------------------------------------------------------------------------
(* UndoRedoManager *)

\* canUndo() that also allows a step back from the first entry
canUndoFromFirst == currentIndex >= 0

canUndo == currentIndex > 0

canRedo == currentIndex < Len(history) - 1

getCurrentState ==
  IF currentIndex >= 0 /\ currentIndex < Len(history)
  THEN history[currentIndex + 1].state
  ELSE Null

\* the object notifyListeners builds from the manager after an operation
ListenerState(h, idx) ==
  [canUndo |-> idx > 0, canRedo |-> idx < Len(h) - 1,
   historyLength |-> Len(h), currentIndex |-> idx]

\* push without the removal of the entries after the cursor
PushLogKeepsRedoBranch(h, idx, bound, state, action, now) ==
  LET added == Append(h, [state |-> JSONCopy(state), action |-> action,
                          timestamp |-> now])
  IN  IF Len(added) > bound
      THEN [history |-> Tail(added), currentIndex |-> idx]
      ELSE [history |-> added, currentIndex |-> idx + 1]

\* push that advances the cursor also when it evicts the oldest entry
PushLogEvictAdvances(h, idx, bound, state, action, now) ==
  LET cut   == IF idx < Len(h) - 1 THEN SliceTo(h, idx + 1) ELSE h
      added == Append(cut, [state |-> JSONCopy(state), action |-> action,
                            timestamp |-> now])
  IN  IF Len(added) > bound
      THEN [history |-> Tail(added), currentIndex |-> idx + 1]
      ELSE [history |-> added, currentIndex |-> idx + 1]

\* the log and the cursor push(state, action) leaves behind
PushLog(h, idx, bound, state, action, now) ==
  LET cut   == IF idx < Len(h) - 1 THEN SliceTo(h, idx + 1) ELSE h
      added == Append(cut, [state |-> JSONCopy(state), action |-> action,
                            timestamp |-> now])
  IN  IF Len(added) > bound
      THEN [history |-> Tail(added), currentIndex |-> idx]
      ELSE [history |-> added, currentIndex |-> idx + 1]

\* the manager as an operation finds it
UndoPre ==
  [history |-> history, currentIndex |-> currentIndex, lastOp |-> lastOp,
   isEnabled |-> isEnabled]

\* scen follows a run of n recorded pushes onto a new or cleared log, then
\* (for n within the bound) k undos, then k redos; any other operation ends
\* the run
ScenOff == [phase |-> "off", n |-> 0, k |-> 0, base |-> <<>>]

ScenAfter(op, ok) ==
  CASE op = "push" /\ ok /\ scen.phase = "push" /\ scen.n < MaxPushRun ->
         [phase |-> "push", n |-> scen.n + 1, k |-> 0, base |-> <<>>]
    [] op = "undo" /\ scen.phase = "push" /\ scen.n >= 2
          /\ scen.n <= maxHistory ->
         [phase |-> "undo", n |-> scen.n, k |-> 1, base |-> history]
    [] op = "undo" /\ scen.phase = "undo" /\ scen.k < scen.n - 1 ->
         [scen EXCEPT !.k = scen.k + 1]
    [] op = "redo" /\ scen.phase = "undo" /\ scen.k = scen.n - 1 ->
         [scen EXCEPT !.phase = "redo", !.k = 1]
    [] op = "redo" /\ scen.phase = "redo" /\ scen.k < scen.n - 1 ->
         [scen EXCEPT !.k = scen.k + 1]
    [] op = "clear" ->
         [phase |-> "push", n |-> 0, k |-> 0, base |-> <<>>]
    [] OTHER -> ScenOff

\* a push that makes the log longer is followed while the log is shorter than
\* MaxLog; a push onto a full log is always followed
push(state, action) ==
  /\ Len(history) < MaxLog \/ Len(history) >= maxHistory
  /\ lastOp' = "push"
  /\ pre' = UndoPre
  /\ lastArg' = [state |-> state, action |-> action]
  /\ lastResult' = Null
  /\ scen' = ScenAfter("push", isEnabled)
  /\ IF ~isEnabled
     THEN UNCHANGED undoVars
     ELSE LET r == PushLog(history, currentIndex, maxHistory, state, action, clock)
          IN  /\ history' = r.history
              /\ currentIndex' = r.currentIndex
              /\ undoNotice' = ListenerState(r.history, r.currentIndex)
              /\ UNCHANGED <<maxHistory, isEnabled>>
  /\ UNCHANGED <<clock, storeVars, storage>>

\* undo() that reads the entry before it moves the cursor
undoReadsBeforeMove ==
  /\ lastOp' = "undo"
  /\ pre' = UndoPre
  /\ lastArg' = Null
  /\ scen' = ScenAfter("undo", TRUE)
  /\ IF ~canUndo
     THEN /\ lastResult' = Null
          /\ UNCHANGED undoVars
     ELSE /\ currentIndex' = currentIndex - 1
          /\ lastResult' = At(history, currentIndex)
          /\ undoNotice' = ListenerState(history, currentIndex - 1)
          /\ UNCHANGED <<history, maxHistory, isEnabled>>
  /\ UNCHANGED <<clock, storeVars, storage>>

undo ==
  /\ lastOp' = "undo"
  /\ pre' = UndoPre
  /\ lastArg' = Null
  /\ scen' = ScenAfter("undo", TRUE)
  /\ IF ~canUndo
     THEN /\ lastResult' = Null
          /\ UNCHANGED undoVars
     ELSE /\ currentIndex' = currentIndex - 1
          /\ lastResult' = At(history, currentIndex - 1)
          /\ undoNotice' = ListenerState(history, currentIndex - 1)
          /\ UNCHANGED <<history, maxHistory, isEnabled>>
  /\ UNCHANGED <<clock, storeVars, storage>>

\* redo() reads history[currentIndex] after moving the cursor; when the entry
\* is undefined (a cursor below -1) reading its state throws a TypeError,
\* after the cursor has moved and before the listeners are told.
redo ==
  /\ lastOp' = "redo"
  /\ pre' = UndoPre
  /\ lastArg' = Null
  /\ scen' = ScenAfter("redo", TRUE)
  /\ IF ~canRedo
     THEN /\ lastResult' = Null
          /\ UNCHANGED undoVars
     ELSE LET idx == currentIndex + 1
          IN  /\ currentIndex' = idx
              /\ IF At(history, idx) = Null
                 THEN /\ lastResult' = [kind |-> "TypeError"]
                      /\ UNCHANGED undoNotice
                 ELSE /\ lastResult' = At(history, idx)
                      /\ undoNotice' = ListenerState(history, idx)
              /\ UNCHANGED <<history, maxHistory, isEnabled>>
  /\ UNCHANGED <<clock, storeVars, storage>>

clear ==
  /\ lastOp' = "clear"
  /\ pre' = UndoPre
  /\ lastArg' = Null
  /\ lastResult' = Null
  /\ scen' = ScenAfter("clear", TRUE)
  /\ history' = <<>>
  /\ currentIndex' = -1
  /\ undoNotice' = ListenerState(<<>>, -1)
  /\ UNCHANGED <<maxHistory, isEnabled, clock, storeVars, storage>>

setEnabled(enabled) ==
  /\ lastOp' = "setEnabled"
  /\ pre' = UndoPre
  /\ lastArg' = [enabled |-> enabled]
  /\ lastResult' = Null
  /\ scen' = ScenAfter("setEnabled", TRUE)
  /\ isEnabled' = enabled
  /\ UNCHANGED <<history, currentIndex, maxHistory, undoNotice, clock,
                 storeVars, storage>>

\* the parsed JSON documents loadUndoHistory hands to deserialize: what
\* serialize() wrote, or whatever else the storage key holds
DataEntry(i) ==
  [state |-> [leftInputs |-> <<"0,0", "100,0">>, rightInputs |-> <<"0,50">>],
   action |-> "CALCULATE", timestamp |-> i]

DataHistories ==
  { <<>> } \cup { <<h>> : h \in { <<>>, <<DataEntry(0)>>,
                                  <<DataEntry(0), DataEntry(0)>> } }

DataIndices == { <<>> } \cup { <<i>> : i \in -MaxDataIndex..MaxDataIndex }

DataBounds == { <<>> } \cup { <<b>> : b \in 0..MaxDataBound }

UndoData ==
  [history : DataHistories, currentIndex : DataIndices, maxHistory : DataBounds]

\* x || d for an optional number: d when x is absent or 0
OrElse(x, d) == IF x = <<>> \/ x[1] = 0 THEN d ELSE x[1]

\* x ?? d: d when x is absent
Coalesce(x, d) == IF x = <<>> THEN d ELSE x[1]

\* the cursor deserialize(data) leaves behind
RestoredIndex(data) ==
  LET h   == Coalesce(data.history, <<>>)
      idx == Coalesce(data.currentIndex, -1)
  IN  IF idx >= Len(h) THEN Len(h) - 1 ELSE idx

\* the manager after deserialize(data)
Restored(data) ==
  /\ history' = Coalesce(data.history, <<>>)
  /\ currentIndex' = RestoredIndex(data)
  /\ maxHistory' = OrElse(data.maxHistory, DefaultMaxHistory)
  /\ undoNotice' = ListenerState(history', currentIndex')
  /\ UNCHANGED isEnabled

deserialize(data) ==
  /\ lastOp' = "deserialize"
  /\ pre' = Null
  /\ lastArg' = data
  /\ lastResult' = Null
  /\ scen' = ScenAfter("deserialize", TRUE)
  /\ Restored(data)
  /\ UNCHANGED <<clock, storeVars, storage>>

\* time passes
Tick ==
  /\ clock < MaxClock
  /\ clock' = clock + 1
  /\ UNCHANGED <<undoVars, obsVars, scen, storeVars, storage>>

----------------------------------------------------------------------------
(* Strings that the code inspects: sequences of one-character strings *)

UpperToLower ==
  [A |-> "a", B |-> "b", C |-> "c", D |-> "d", P |-> "p", X |-> "x"]

toLowerCase(str) ==
  [i \in 1..Len(str) |->
     IF str[i] \in DOMAIN UpperToLower THEN UpperToLower[str[i]] ELSE str[i]]

\* String.prototype.trim: without the white space at either end
trim(str) ==
  LET solid == { i \in 1..Len(str) : str[i] # " " }
  IN  IF solid = {} THEN <<>>
      ELSE SubSeq(str, CHOOSE i \in solid : \A j \in solid : i <= j,
                       CHOOSE i \in solid : \A j \in solid : i >= j)

MinNameLength == 3
MaxNameLength == 50

\* validateProjectName(name, existingProjects), given the names of the
\* existing projects: the names are compared as stored, the new name trimmed
validateProjectName(name, existingNames) ==
  LET trimmedName == trim(name)
  IN  CASE name = <<>> \/ trimmedName = <<>> ->
             [valid |-> FALSE, error |-> "Project name is required"]
        [] Len(trimmedName) < MinNameLength ->
             [valid |-> FALSE,
              error |-> "Project name must be at least 3 characters"]
        [] Len(trimmedName) > MaxNameLength ->
             [valid |-> FALSE,
              error |-> "Project name must be less than 50 characters"]
        [] \E i \in 1..Len(existingNames) :
               toLowerCase(existingNames[i]) = toLowerCase(trimmedName) ->
             [valid |-> FALSE,
              error |-> "A project with this name already exists"]
        [] OTHER -> [valid |-> TRUE, error |-> "null"]

----------------------------------------------------------------------------
(* Numbers and the calculations (utils/calculations.js)                    *)
(*                                                                         *)
(* The floating-point numbers of the code are fixed-point numbers here:    *)
(* coordinates, distances, widths and lengths count hundredths of a metre, *)
(* areas ten-thousandths of a square foot, and the area in decimals counts *)
(* thousandths.  A result that has no exact value in its unit is rounded   *)
(* down, where the code rounds to the nearest double.                      *)

Unit == 100

MaxPoints == 3       \* a side holds at most this many points

\* the point {x, y}, given in metres
Pt(x, y) == [x |-> x * Unit, y |-> y * Unit]

\* the largest r in lo..hi with r * r <= n
RECURSIVE SqrtBetween(_, _, _)
SqrtBetween(n, lo, hi) ==
  IF lo >= hi THEN lo
  ELSE LET mid == (lo + hi + 1) \div 2
       IN  IF mid * mid <= n THEN SqrtBetween(n, mid, hi)
           ELSE SqrtBetween(n, lo, mid - 1)

\* Math.hypot(dx, dy)
hypot(dx, dy) == SqrtBetween(dx * dx + dy * dy, 0, 46340)

\* NaN.  The numbers of the model are the finite ones that the points and
\* their aggregates take, which are not negative, and NaN, for which the
\* integer -1 stands; the operations below yield NaN for NaN, as those of
\* the code do.
NaN == -1

\* Math.hypot(b.x - a.x, b.y - a.y)
dist(a, b) ==
  IF NaN \in {a.x, a.y, b.x, b.y} THEN NaN ELSE hypot(b.x - a.x, b.y - a.y)

\* (a + b) / 2
Half(a, b) == IF NaN \in {a, b} THEN NaN ELSE (a + b) \div 2

\* a * b / c, rounded down, without an intermediate product beyond 2^31
MulDiv(a, b, c) == (a \div c) * b + ((a % c) * b) \div c

\* a * b * 10.7639
SquareFeet(a, b) ==
  IF NaN \in {a, b} THEN NaN ELSE MulDiv(a * b, 107639, 10000)

\* parseFloat(sqftToDecimal(sqft)): sqft / 435.6 rounded to three decimals
sqftToDecimal(sqft) ==
  IF sqft = NaN THEN NaN ELSE (2 * sqft + 4356) \div (2 * 4356)

NoCalculations ==
  [leftDistance |-> 0, rightDistance |-> 0, avgWidth |-> 0, length |-> 0,
   area |-> 0, areaDecimal |-> 0]

\* calculateMeasurements that measures each side from its first point to its
\* last one
calculateMeasurementsToLast(leftPoints, rightPoints) ==
  LET leftDistance  == IF Len(leftPoints) >= 2
                       THEN dist(leftPoints[1], leftPoints[Len(leftPoints)])
                       ELSE 0
      rightDistance == IF Len(rightPoints) >= 2
                       THEN dist(rightPoints[1], rightPoints[Len(rightPoints)])
                       ELSE 0
  IN  IF Len(leftPoints) >= 2 /\ Len(rightPoints) >= 2
      THEN LET avgWidth == Half(leftDistance, rightDistance)
               leftMidpoint ==
                 [x |-> Half(leftPoints[1].x, leftPoints[Len(leftPoints)].x),
                  y |-> Half(leftPoints[1].y, leftPoints[Len(leftPoints)].y)]
               rightMidpoint ==
                 [x |-> Half(rightPoints[1].x, rightPoints[Len(rightPoints)].x),
                  y |-> Half(rightPoints[1].y, rightPoints[Len(rightPoints)].y)]
               length == dist(leftMidpoint, rightMidpoint)
               area == SquareFeet(avgWidth, length)
           IN  [leftDistance |-> leftDistance, rightDistance |-> rightDistance,
                avgWidth |-> avgWidth, length |-> length, area |-> area,
                areaDecimal |-> sqftToDecimal(area)]
      ELSE [NoCalculations EXCEPT !.leftDistance = leftDistance,
                                  !.rightDistance = rightDistance]

\* calculateMeasurements(leftPoints, rightPoints); leftPoints[0] and
\* leftPoints[1] of the code are leftPoints[1] and leftPoints[2] here
calculateMeasurements(leftPoints, rightPoints) ==
  LET leftDistance  == IF Len(leftPoints) >= 2
                       THEN dist(leftPoints[1], leftPoints[2]) ELSE 0
      rightDistance == IF Len(rightPoints) >= 2
                       THEN dist(rightPoints[1], rightPoints[2]) ELSE 0
  IN  IF Len(leftPoints) >= 2 /\ Len(rightPoints) >= 2
      THEN LET avgWidth == Half(leftDistance, rightDistance)
               leftMidpoint ==
                 [x |-> Half(leftPoints[1].x, leftPoints[2].x),
                  y |-> Half(leftPoints[1].y, leftPoints[2].y)]
               rightMidpoint ==
                 [x |-> Half(rightPoints[1].x, rightPoints[2].x),
                  y |-> Half(rightPoints[1].y, rightPoints[2].y)]
               length == dist(leftMidpoint, rightMidpoint)
               area == SquareFeet(avgWidth, length)
           IN  [leftDistance |-> leftDistance, rightDistance |-> rightDistance,
                avgWidth |-> avgWidth, length |-> length, area |-> area,
                areaDecimal |-> sqftToDecimal(area)]
      ELSE [NoCalculations EXCEPT !.leftDistance = leftDistance,
                                  !.rightDistance = rightDistance]

\* the points the inputs are made of
PointInputs == { Pt(0, 0), Pt(100, 0), Pt(0, 50), Pt(100, 50) }

\* the arrays of at most MaxPoints of these points
PointArrays ==
  UNION { [1..n -> PointInputs] : n \in 0..MaxPoints }

\* calculateMeasurements is applied to the two arrays of points in lastArg
calculate ==
  /\ lastOp = "points"
  /\ lastOp' = "calculateMeasurements"
  /\ lastResult' = calculateMeasurements(lastArg.leftPoints,
                                         lastArg.rightPoints)
  /\ UNCHANGED <<lastArg, undoVars, storeVars, storage, clock, scen, pre>>

----------------------------------------------------------------------------
(* Bounds and inputs of the store *)

MaxProjects == 2     \* addProject is followed while the store holds fewer

NoRef == 0
NoTimer == 0          \* debounce's timeout while it is undefined
Idle == "idle"        \* no event of the page is being handled

\* the text of a coordinate field, as the parts between its commas: a part is
\* the text of a number or some other text
Num(n) == [num |-> n]
Txt(t) == [text |-> t]

EmptyField == << Txt("") >>

\* the page as init() leaves it: two empty fields a side
NoInputs == [left |-> << EmptyField, EmptyField >>,
             right |-> << EmptyField, EmptyField >>]
NoId == 0            \* null, undefined or '' where an id is expected

\* ids found in stored or imported documents; generateUUID() yields others
DocIds == {1, 2}
FirstNewId == 11

NotifyIds == {1, FirstNewId}

LongName == [i \in 1..(MaxNameLength + 1) |-> "x"]

NameInputs ==
  { <<"a", "b", "c">>, <<"A", "B", "C">>, <<" ", "a", "b", "c">>, LongName }

\* the names and ids followed where the store is looked at together with its
\* measurements
NotifyNames == { <<"a", "b", "c">>, <<"A", "B", "C">> }

\* the settings the settings panel, a stored document or a backup supply
SettingsInputs ==
  { {}, { <<"theme", "dark">> } }

DocProject(id, name) == [id |-> id, name |-> name, measurements |-> <<>>]

DocProjectLists ==
  { <<>>,
    << DocProject(1, <<"a", "b", "c">>), DocProject(2, <<"x", "x", "x">>) >>,
    << DocProject(1, <<"a", "b", "c">>), DocProject(2, <<"A", "B", "C">>) >>,
    << DocProject(2, <<"a", "b">>) >> }

\* what loadAll hands to loadState
StateDocs ==
  [projects : DocProjectLists,
   settings : { <<>> } \cup { <<u>> : u \in SettingsInputs \ {{}} },
   currentProjectId : {NoId} \cup DocIds]

\* the parsed backup files handed to importAllData
BackupDocs ==
  [version : { <<"1.0.0">> },
   projects : { <<l>> : l \in DocProjectLists },
   settings : { <<>>, << { <<"theme", "dark">> } >> }]
    \cup { [version |-> <<>>, projects |-> << <<>> >>, settings |-> <<>>],
           [version |-> <<"1.0.0">>, projects |-> <<>>, settings |-> <<>>] }

MaxRoom == 10        \* the space the browser has for the application's keys

\* how a saveAll() may fail: at = 0 when localStorage is not available,
\* at = k when the k-th setItem throws an error of the given name, at = 6
\* when every write goes through
SaveOutcomes ==
  [at : 0..6, name : {"QuotaExceededError"}]
    \cup [at : 1..5, name : {"NS_ERROR_DOM_QUOTA_REACHED"}]

\* The outcome followed for the saveAll() at the end of an import in the
\* specification of the store: localStorage is not available there.  What
\* saveAll() writes has no influence on the store.
ImportOutcomes == { o \in SaveOutcomes : o.at = 0 }

----------------------------------------------------------------------------
(* Project objects *)

Range(f) == { f[i] : i \in DOMAIN f }

SetMin(S) == CHOOSE x \in S : \A y \in S : x <= y

\* n references that are not in use
RECURSIVE NewRefs(_, _)
NewRefs(n, used) ==
  IF n = 0 THEN <<>>
  ELSE LET r == SetMin((1..(Cardinality(used) + 1)) \ used)
       IN  <<r>> \o NewRefs(n - 1, used \cup {r})

\* The objects that the store still references, under new references: the
\* i-th project of the store gets reference i, and a current project that is
\* not in the store's list (any more) the next one.  Which reference an
\* object has is not observable, so this identifies states that differ in
\* nothing but the references.
Live(h, projs, cur) ==
  LET n     == Len(projs)
      stale == cur # NoRef /\ \A i \in 1..n : projs[i] # cur
  IN  [heap |-> [k \in 1..(IF stale THEN n + 1 ELSE n) |->
                   IF k <= n THEN h[projs[k]] ELSE h[cur]],
       projects |-> [k \in 1..n |-> k],
       currentProject |->
         CASE cur = NoRef -> NoRef
           [] stale -> n + 1
           [] OTHER -> SetMin({ i \in 1..n : projs[i] = cur })]

\* the store's objects after an operation
Objects(h, projs, cur) ==
  LET live == Live(h, projs, cur)
  IN  /\ heap' = live.heap
      /\ projects' = live.projects
      /\ currentProject' = live.currentProject

\* m.toJSON ? m.toJSON() : m, for a measurement of a project: the plain
\* object with the measurement's id, points and calculations
MeasurementJSON(m) == [m EXCEPT !.kind = "Object"]

\* Project.toJSON that leaves the measurements out
toJSONWithoutMeasurements(project) ==
  [id |-> project.id, name |-> project.name, measurements |-> <<>>]

\* Project.toJSON
toJSON(project) ==
  [id |-> project.id, name |-> project.name,
   measurements |-> [k \in 1..Len(project.measurements) |->
                       MeasurementJSON(project.measurements[k])]]

\* Project.fromJSON
fromJSON(data) ==
  [id |-> data.id, name |-> data.name, measurements |-> data.measurements]

\* the projects of the store as plain objects, in order
ProjectsJSON(h, projs) == [i \in 1..Len(projs) |-> toJSON(h[projs[i]])]

ProjectNames(h, projs) == [i \in 1..Len(projs) |-> h[projs[i]].name]

\* generateUUID(): an id that is in use nowhere
UsedIds ==
  { heap[r].id : r \in DOMAIN heap } \cup {currentProjectId}
    \cup (IF storage.projects = <<>> THEN {}
          ELSE { storage.projects[1][i].id : i \in 1..Len(storage.projects[1]) })
    \cup (IF storage.currentProjectId = <<>> THEN {}
          ELSE {storage.currentProjectId[1]})

generateUUID ==
  SetMin((FirstNewId..(FirstNewId + Cardinality(UsedIds))) \ UsedIds)

\* Project.validate(existingProjects): the name is checked against the
\* projects with another id
validate(project, h, projs) ==
  LET others == SelectSeq(projs, LAMBDA r : h[r].id # project.id)
  IN  validateProjectName(project.name, ProjectNames(h, others))

----------------------------------------------------------------------------
(* StateManager *)

getDefaultSettings ==
  { <<"defaultUnit", "meters">>, <<"autoSave", "true">>,
    <<"showGrid", "true">>, <<"showLabels", "true">>,
    <<"theme", "light">>, <<"maxHistorySize", "50">> }

\* { ...base, ...updates }
Spread(base, updates) ==
  { p \in base : \A q \in updates : q[1] # p[1] } \cup updates

\* notifyListeners that does not look at isUpdating
notifyListenersUnguarded(sofar, action) == Append(sofar, action)

\* notifyListeners(action): the tags delivered so far, with this one added
\* unless a notification is in flight
notifyListeners(sofar, action) ==
  IF isUpdating THEN sofar ELSE Append(sofar, action)

Bool(b) == [kind |-> "boolean", value |-> b]

\* getState(): the state object that a listener is handed
getState(h, projs, cur, curId, sett) ==
  [projects |-> ProjectsJSON(h, projs),
   currentProject |-> IF cur = NoRef THEN Null ELSE toJSON(h[cur]),
   currentProjectId |-> curId, settings |-> sett]

\* the notifyListeners call that is running innermost
Top == rounds[Len(rounds)]

SetTop(frame) == [rounds EXCEPT ![Len(rounds)] = frame]

\* Code of the page runs from the top level or, during a notification, from
\* within the listener that has been called.
CanCall == IF rounds = <<>> THEN TRUE ELSE Top.running

\* What a store operation leaves to be delivered: notified' holds the tags
\* of its notifyListeners calls that found no notification in flight.  With
\* no listener subscribed such a call returns at once; otherwise the
\* listeners are called one after the other, each a step of its own (Call,
\* Return), so that what a listener does to the store falls between them.
\* outer keeps the operation that was called from the top level, until the
\* page does something else.
Deliveries(op) ==
  /\ CanCall
  /\ outer' =
       IF rounds = <<>>
       THEN [op |-> op, result |-> lastResult', tags |-> notified',
             subscribed |-> listeners,
             post |-> getState(heap', projects', currentProject',
                               currentProjectId', settings'),
             delivered |-> <<>>, nested |-> FALSE, threw |-> FALSE]
       ELSE [outer EXCEPT !.nested = TRUE]
  /\ IF notified' = <<>>
     THEN UNCHANGED <<isUpdating, rounds>>
     ELSE IF listeners = <<>>
          THEN /\ isUpdating' = FALSE
               /\ UNCHANGED rounds
          ELSE /\ isUpdating' = TRUE
               /\ rounds' = Append(rounds, [tags |-> notified', pos |-> 0,
                                            len |-> Len(listeners),
                                            running |-> FALSE])
  /\ UNCHANGED listeners

\* getProject that falls back to the first project
getProjectOrFirst(h, projs, projectId) ==
  LET hits == { i \in 1..Len(projs) : h[projs[i]].id = projectId }
  IN  IF hits = {} THEN (IF projs = <<>> THEN NoRef ELSE projs[1])
      ELSE projs[SetMin(hits)]

\* getProject(projectId) on the given projects: the first with that id
getProject(h, projs, projectId) ==
  LET hits == { i \in 1..Len(projs) : h[projs[i]].id = projectId }
  IN  IF hits = {} THEN NoRef ELSE projs[SetMin(hits)]

\* the index of the first project with that id, or -1
findIndex(h, projs, projectId) ==
  LET hits == { i \in 1..Len(projs) : h[projs[i]].id = projectId }
  IN  IF hits = {} THEN -1 ELSE SetMin(hits) - 1

\* arr.splice(index, 1) for a 0-based index
splice(arr, index) ==
  SubSeq(arr, 1, index) \o SubSeq(arr, index + 2, Len(arr))

storeFrame ==
  UNCHANGED <<undoVars, clock, scen, modelVars, room, pageVars>>

\* addProject(new Project(name))
addProject(name) ==
  /\ Len(projects) < MaxProjects
  /\ LET project == [id |-> generateUUID, name |-> name, measurements |-> <<>>]
         validation == validate(project, heap, projects)
         ref == NewRefs(1, DOMAIN heap)[1]
     IN  /\ lastOp' = "addProject"
         /\ lastArg' = Null
         /\ pre' = Null
         /\ IF ~validation.valid
            THEN /\ lastResult' = Bool(FALSE)
                 /\ notified' = <<>>
                 /\ UNCHANGED <<heap, projects>>
                 /\ UNCHANGED currentProject
            ELSE /\ Objects([r \in DOMAIN heap \cup {ref} |->
                               IF r = ref THEN project ELSE heap[r]],
                            Append(projects, ref), currentProject)
                 /\ notified' = notifyListeners(<<>>, "PROJECT_ADDED")
                 /\ lastResult' = Bool(TRUE)
  /\ UNCHANGED <<currentProjectId, settings, storage>>
  /\ Deliveries("addProject")
  /\ storeFrame

removeProject(projectId) ==
  LET index == findIndex(heap, projects, projectId)
      isCurrent == currentProjectId = projectId
  IN  /\ lastOp' = "removeProject"
      /\ lastArg' = Null
      /\ pre' = Null
      /\ IF index = -1
         THEN /\ lastResult' = Bool(FALSE)
              /\ notified' = <<>>
              /\ UNCHANGED <<heap, projects, currentProject, currentProjectId>>
         ELSE /\ currentProjectId' = IF isCurrent THEN NoId ELSE currentProjectId
              /\ Objects(heap, splice(projects, index),
                         IF isCurrent THEN NoRef ELSE currentProject)
              /\ notified' = notifyListeners(<<>>, "PROJECT_REMOVED")
              /\ lastResult' = Bool(TRUE)
      /\ UNCHANGED <<settings, storage>>
      /\ Deliveries("removeProject")
      /\ storeFrame

\* what setCurrentProject(projectId) does to the selection, the tags it adds
\* to those delivered so far, and what it returns
SetCurrent(h, projs, cur, curId, sofar, projectId) ==
  LET project == getProject(h, projs, projectId)
  IN  CASE projectId = NoId ->
             [currentProject |-> NoRef, currentProjectId |-> NoId,
              notified |-> notifyListeners(sofar, "PROJECT_CHANGED"),
              result |-> TRUE]
        [] projectId # NoId /\ project = NoRef ->
             [currentProject |-> cur, currentProjectId |-> curId,
              notified |-> sofar, result |-> FALSE]
        [] OTHER ->
             [currentProject |-> project, currentProjectId |-> projectId,
              notified |-> notifyListeners(sofar, "PROJECT_CHANGED"),
              result |-> TRUE]

setCurrentProject(projectId) ==
  LET r == SetCurrent(heap, projects, currentProject, currentProjectId,
                      <<>>, projectId)
  IN  /\ lastOp' = "setCurrentProject"
      /\ lastArg' = Null
      /\ pre' = Null
      /\ currentProjectId' = r.currentProjectId
      /\ Objects(heap, projects, r.currentProject)
      /\ notified' = r.notified
      /\ lastResult' = Bool(r.result)
      /\ UNCHANGED <<settings, storage>>
      /\ Deliveries("setCurrentProject")
      /\ storeFrame

\* updateCurrentProject({name}): Project.update assigns the name as given
updateCurrentProject(name) ==
  /\ lastOp' = "updateCurrentProject"
  /\ lastArg' = Null
  /\ pre' = Null
  /\ IF currentProject = NoRef
     THEN /\ lastResult' = Bool(FALSE)
          /\ notified' = <<>>
          /\ UNCHANGED heap
     ELSE /\ heap' = [heap EXCEPT ![currentProject].name = name]
          /\ notified' = notifyListeners(<<>>, "PROJECT_UPDATED")
          /\ lastResult' = Bool(TRUE)
  /\ UNCHANGED <<projects, currentProject, currentProjectId, settings,
                 storage>>
  /\ Deliveries("updateCurrentProject")
  /\ storeFrame

updateSettings(updates) ==
  /\ lastOp' = "updateSettings"
  /\ lastArg' = Null
  /\ pre' = Null
  /\ lastResult' = Null
  /\ settings' = Spread(settings, updates)
  /\ notified' = notifyListeners(<<>>, "SETTINGS_UPDATED")
  /\ UNCHANGED <<heap, projects, currentProject, currentProjectId, storage>>
  /\ Deliveries("updateSettings")
  /\ storeFrame

clearAll ==
  /\ lastOp' = "clearAll"
  /\ lastArg' = Null
  /\ pre' = Null
  /\ lastResult' = Null
  /\ heap' = <<>>
  /\ projects' = <<>>
  /\ currentProject' = NoRef
  /\ currentProjectId' = NoId
  /\ settings' = getDefaultSettings
  /\ notified' = notifyListeners(<<>>, "STATE_RESET")
  /\ UNCHANGED storage
  /\ Deliveries("clearAll")
  /\ storeFrame

\* loadState(data): the projects are replaced by new objects made from the
\* data, the settings by the data's settings over the defaults; the current
\* project is set only when the data names one, through setCurrentProject
\* the store after loadState(data)
LoadedState(data) ==
  LET keep   == IF currentProject = NoRef THEN {} ELSE {currentProject}
      refs   == NewRefs(Len(data.projects), keep)
      loaded == [r \in Range(refs) \cup keep |->
                   IF r \in keep THEN heap[r]
                   ELSE fromJSON(data.projects[
                          CHOOSE i \in 1..Len(refs) : refs[i] = r])]
      r      == IF data.currentProjectId # NoId
                THEN SetCurrent(loaded, refs, currentProject, currentProjectId,
                                <<>>, data.currentProjectId)
                ELSE [currentProject |-> currentProject,
                      currentProjectId |-> currentProjectId,
                      notified |-> <<>>, result |-> TRUE]
  IN  /\ settings' = Spread(getDefaultSettings,
                            IF data.settings = <<>> THEN {} ELSE data.settings[1])
      /\ currentProjectId' = r.currentProjectId
      /\ Objects(loaded, refs, r.currentProject)
      /\ notified' = notifyListeners(r.notified, "STATE_LOADED")

loadState(data) ==
  /\ lastOp' = "loadState"
  /\ lastArg' = Null
  /\ pre' = Null
  /\ lastResult' = Null
  /\ LoadedState(data)
  /\ UNCHANGED storage
  /\ Deliveries("loadState")
  /\ storeFrame

----------------------------------------------------------------------------
(* Measurements in the store *)

\* findDuplicatePoints(points): the (1-based) positions of the points that
\* repeat an earlier one
findDuplicatePoints(points) ==
  { i \in 1..Len(points) : \E j \in 1..(i - 1) : points[j] = points[i] }

validatePoints(points, side) ==
  CASE Len(points) < 2 ->
         [valid |-> FALSE,
          error |-> <<"At least 2 points are required for distance calculation",
                      side>>]
    [] Len(points) >= 2 /\ findDuplicatePoints(points) # {} ->
         [valid |-> FALSE, error |-> <<"Duplicate coordinates found", side>>]
    [] OTHER -> [valid |-> TRUE, error |-> <<>>]

\* validateMeasurement(measurement), for a measurement that has its two
\* arrays of points and its calculations
validateMeasurement(measurement) ==
  LET leftValidation  == validatePoints(measurement.leftPoints, "left")
      rightValidation == validatePoints(measurement.rightPoints, "right")
      calcs  == measurement.calculations
      errors ==
        (IF leftValidation.valid THEN <<>> ELSE <<leftValidation.error>>)
        \o (IF rightValidation.valid THEN <<>> ELSE <<rightValidation.error>>)
        \o (IF calcs.leftDistance = NaN \/ calcs.leftDistance < 0
            THEN << <<"Invalid left distance calculation">> >> ELSE <<>>)
        \o (IF calcs.rightDistance = NaN \/ calcs.rightDistance < 0
            THEN << <<"Invalid right distance calculation">> >> ELSE <<>>)
        \o (IF calcs.area = NaN \/ calcs.area < 0
            THEN << <<"Invalid area calculation">> >> ELSE <<>>)
  IN  [valid |-> errors = <<>>, errors |-> errors]

MaxMeasurements == 2 \* addMeasurement is followed while the project holds fewer

\* what addMeasurement is handed: an object with an id, its points and their
\* calculations, made by the Measurement class or not
MeasurementObject(kind, id, leftPoints, rightPoints) ==
  [kind |-> kind, id |-> id, leftPoints |-> leftPoints,
   rightPoints |-> rightPoints,
   calculations |-> calculateMeasurements(leftPoints, rightPoints)]

MeasurementInputs ==
  { MeasurementObject("Measurement", 21, << Pt(0, 0), Pt(100, 0) >>,
                      << Pt(0, 50), Pt(100, 50) >>),
    MeasurementObject("Measurement", 22, << Pt(0, 0), Pt(100, 0) >>, <<>>),
    MeasurementObject("Measurement", NoId, << Pt(0, 0), Pt(100, 0) >>,
                      << Pt(0, 50), Pt(100, 50) >>),
    MeasurementObject("Object", 23, << Pt(0, 0), Pt(100, 0) >>,
                      << Pt(0, 50), Pt(100, 50) >>) }

MeasurementIds == {21, 22, 23}

\* addMeasurement that falls back to the first project of the store
addMeasurementToFirst(measurement) ==
  LET target == IF currentProject # NoRef THEN currentProject
                ELSE IF projects # <<>> THEN projects[1] ELSE NoRef
      validation == validateMeasurement(measurement)
      accepted == /\ target # NoRef
                  /\ measurement.kind = "Measurement"
                  /\ validation.valid
  IN  /\ target # NoRef => Len(heap[target].measurements) < MaxMeasurements
      /\ lastOp' = "addMeasurement"
      /\ lastArg' = Null
      /\ pre' = Null
      /\ IF ~accepted
         THEN /\ lastResult' = Bool(FALSE)
              /\ notified' = <<>>
              /\ UNCHANGED heap
         ELSE /\ heap' = [heap EXCEPT ![target].measurements =
                            IF measurement.id = NoId THEN @
                            ELSE Append(@, measurement)]
              /\ notified' = notifyListeners(<<>>, "MEASUREMENT_ADDED")
              /\ lastResult' = Bool(TRUE)
      /\ UNCHANGED <<projects, currentProject, currentProjectId, settings,
                     storage>>
      /\ Deliveries("addMeasurement")
      /\ storeFrame

\* addMeasurement(measurement): Project.addMeasurement appends a measurement
\* that has an id; whether it did is not looked at
addMeasurement(measurement) ==
  LET validation == validateMeasurement(measurement)
      accepted == /\ currentProject # NoRef
                  /\ measurement.kind = "Measurement"
                  /\ validation.valid
  IN  /\ currentProject # NoRef =>
           Len(heap[currentProject].measurements) < MaxMeasurements
      /\ lastOp' = "addMeasurement"
      /\ lastArg' = Null
      /\ pre' = Null
      /\ IF ~accepted
         THEN /\ lastResult' = Bool(FALSE)
              /\ notified' = <<>>
              /\ UNCHANGED heap
         ELSE /\ heap' = [heap EXCEPT ![currentProject].measurements =
                            IF measurement.id = NoId THEN @
                            ELSE Append(@, measurement)]
              /\ notified' = notifyListeners(<<>>, "MEASUREMENT_ADDED")
              /\ lastResult' = Bool(TRUE)
      /\ UNCHANGED <<projects, currentProject, currentProjectId, settings,
                     storage>>
      /\ Deliveries("addMeasurement")
      /\ storeFrame

\* removeMeasurement(measurementId): Project.removeMeasurement removes the
\* first measurement with that id
removeMeasurement(measurementId) ==
  LET ms   == heap[currentProject].measurements
      hits == { i \in 1..Len(ms) : ms[i].id = measurementId }
  IN  /\ lastOp' = "removeMeasurement"
      /\ lastArg' = Null
      /\ pre' = Null
      /\ IF currentProject = NoRef \/ hits = {}
         THEN /\ lastResult' = Bool(FALSE)
              /\ notified' = <<>>
              /\ UNCHANGED heap
         ELSE /\ heap' = [heap EXCEPT ![currentProject].measurements =
                            splice(@, SetMin(hits) - 1)]
              /\ notified' = notifyListeners(<<>>, "MEASUREMENT_REMOVED")
              /\ lastResult' = Bool(TRUE)
      /\ UNCHANGED <<projects, currentProject, currentProjectId, settings,
                     storage>>
      /\ Deliveries("removeMeasurement")
      /\ storeFrame

----------------------------------------------------------------------------
(* Measurement objects (main-enhanced.js, class Measurement) *)

MaxSide == 2    \* addPoint is offered while a side has fewer points

\* the Measurement objects that the model creates: one, whose two sides may
\* be one and the same array
MeasurementRefs == {1}

SidePoints == { Pt(0, 0), Pt(100, 0) }

\* arrays of points handed to the constructor, to update and to fromJSON
SideArrays == { <<>>, <<Pt(0, 0), Pt(100, 0)>> }

Sides == {"left", "right", "top"}

\* the array of a measurement that a side names
SideRef(m, side) == IF side = "left" THEN m.leftPoints ELSE m.rightPoints

\* calculate(): calculateMeasurements of the arrays the measurement refers to
calculateOf(arrs, m) ==
  calculateMeasurements(arrs[m.leftPoints], arrs[m.rightPoints])

\* the references of the measurements, in order of the measurements
RefsOf(ms) ==
  [i \in 1..(2 * Len(ms)) |->
     IF i % 2 = 1 THEN ms[(i + 1) \div 2].leftPoints
                  ELSE ms[i \div 2].rightPoints]

RECURSIVE Dedup(_)
Dedup(seq) ==
  IF seq = <<>> THEN <<>>
  ELSE LET d == Dedup(SubSeq(seq, 1, Len(seq) - 1))
           x == seq[Len(seq)]
       IN  IF x \in Range(d) THEN d ELSE Append(d, x)

IndexOf(seq, x) == CHOOSE i \in 1..Len(seq) : seq[i] = x

\* arrays that no measurement refers to are dropped and the others are
\* numbered in the order in which the measurements refer to them
Collect(arrs, ms) ==
  LET order == Dedup(RefsOf(ms))
  IN  [arrays |-> [i \in 1..Len(order) |-> arrs[order[i]]],
       measures |-> [i \in 1..Len(ms) |->
                       [ms[i] EXCEPT !.leftPoints = IndexOf(order, @),
                                     !.rightPoints = IndexOf(order, @)]]]

measureFrame ==
  UNCHANGED <<undoVars, heap, projects, currentProject, currentProjectId,
              settings, notified, notifyVars, room, pageVars, storage, clock,
              scen, pre>>

\* the arrays and the measurements become these
Settle(arrs, ms) ==
  LET c == Collect(arrs, ms)
  IN  /\ arrays' = c.arrays
      /\ measures' = c.measures

\* an array argument: an array of the caller's own ([content |-> points]) or
\* one that a measurement already refers to ([ref |-> reference])
ArrayArgs ==
  [content : SideArrays] \cup [ref : 1..(2 * Cardinality(MeasurementRefs))]

ArgOk(a) == "ref" \in DOMAIN a => a.ref \in DOMAIN arrays

ArgArrays(arrs, a) ==
  IF "ref" \in DOMAIN a THEN arrs ELSE Append(arrs, a.content)

ArgRef(arrs, a) == IF "ref" \in DOMAIN a THEN a.ref ELSE Len(arrs) + 1

\* new Measurement(leftPoints, rightPoints): the object refers to the arrays
\* it is given
Construct(arrs, l, r) ==
  LET a1 == ArgArrays(arrs, l)
      a2 == ArgArrays(a1, r)
      m0 == [leftPoints |-> ArgRef(arrs, l), rightPoints |-> ArgRef(a1, r)]
  IN  [arrays |-> a2,
       m |-> [leftPoints |-> m0.leftPoints, rightPoints |-> m0.rightPoints,
              calculations |-> calculateOf(a2, m0)]]

newMeasurement(l, r) ==
  /\ Len(measures) + 1 \in MeasurementRefs
  /\ ArgOk(l) /\ ArgOk(r)
  /\ LET c == Construct(arrays, l, r)
     IN  Settle(c.arrays, Append(measures, c.m))
  /\ lastOp' = "Measurement"
  /\ lastArg' = Null
  /\ lastResult' = Len(measures) + 1
  /\ measureFrame

\* calculations as stored data has them: none, those of the stored points,
\* or others
\* stored measurements: a side is <<>> (no such field) or <<points>>, and the
\* calculations are absent, those of the stored points, all zero, or those of
\* other points
MeasurementData ==
  { [leftPoints |-> l, rightPoints |-> r, calculations |-> c] :
      l \in {<<>>} \cup { <<a>> : a \in SideArrays },
      r \in {<<>>} \cup { <<a>> : a \in SideArrays },
      c \in {"absent", "stored", "zero", "other"} }

\* data.leftPoints || []
PointsOr(x) == IF x = <<>> THEN <<>> ELSE x[1]

\* the calculations of the data d
CalculationsOf(d) ==
  LET l == PointsOr(d.leftPoints)
      r == PointsOr(d.rightPoints)
  IN  CASE d.calculations = "absent" -> Null
        [] d.calculations = "stored" -> calculateMeasurements(l, r)
        [] d.calculations = "zero" -> NoCalculations
        [] OTHER -> calculateMeasurements(<<Pt(0, 0), Pt(100, 0)>>,
                                          <<Pt(0, 0), Pt(100, 0)>>)

\* Measurement.fromJSON(data)
measurementFromJSON(data) ==
  /\ Len(measures) + 1 \in MeasurementRefs
  /\ LET c == Construct(arrays,
                        [content |-> PointsOr(data.leftPoints)],
                        [content |-> PointsOr(data.rightPoints)])
         m == IF CalculationsOf(data) # Null
              THEN [c.m EXCEPT !.calculations = CalculationsOf(data)]
              ELSE [c.m EXCEPT !.calculations = calculateOf(c.arrays, c.m)]
     IN  Settle(c.arrays, Append(measures, m))
  /\ lastOp' = "fromJSON"
  /\ lastArg' = data.calculations
  /\ lastResult' = Len(measures) + 1
  /\ measureFrame

UpdateInputs ==
  {[name |-> "n"]}
    \cup { [leftPoints |-> l] : l \in ArrayArgs }
    \cup { [rightPoints |-> r] : r \in ArrayArgs }
    \cup { [leftPoints |-> l, rightPoints |-> r] : l, r \in [content : SideArrays] }

\* measurement.update(updates)
update(i, updates) ==
  /\ i \in DOMAIN measures
  /\ \A k \in DOMAIN updates \ {"name"} : ArgOk(updates[k])
  /\ LET hasL == "leftPoints" \in DOMAIN updates
         hasR == "rightPoints" \in DOMAIN updates
         a1 == IF hasL THEN ArgArrays(arrays, updates.leftPoints) ELSE arrays
         a2 == IF hasR THEN ArgArrays(a1, updates.rightPoints) ELSE a1
         m1 == [measures[i] EXCEPT
                  !.leftPoints = IF hasL THEN ArgRef(arrays, updates.leftPoints)
                                 ELSE @,
                  !.rightPoints = IF hasR THEN ArgRef(a1, updates.rightPoints)
                                  ELSE @]
         m2 == IF hasL \/ hasR
               THEN [m1 EXCEPT !.calculations = calculateOf(a2, m1)]
               ELSE m1
     IN  Settle(a2, [measures EXCEPT ![i] = m2])
  /\ lastOp' = "update"
  /\ lastArg' = i
  /\ lastResult' = Null
  /\ measureFrame

\* the measurement i after a change of the arrays: it alone is recalculated
Recalculated(arrs, i) ==
  [measures EXCEPT ![i].calculations = calculateOf(arrs, measures[i])]

\* measurement.addPoint(side, point)
addPoint(i, side, point) ==
  /\ i \in DOMAIN measures
  /\ lastOp' = "addPoint"
  /\ lastArg' = i
  /\ IF side \notin {"left", "right"} \/ point = Null
     THEN /\ lastResult' = Bool(FALSE)
          /\ UNCHANGED modelVars
     ELSE LET ref == SideRef(measures[i], side)
              arrs == [arrays EXCEPT ![ref] = Append(@, point)]
          IN  /\ Len(arrays[ref]) < MaxSide
              /\ Settle(arrs, Recalculated(arrs, i))
              /\ lastResult' = Bool(TRUE)
  /\ measureFrame

\* Array.prototype.splice(index, 1) for an index of the array
Splice1(seq, index) ==
  SubSeq(seq, 1, index) \o SubSeq(seq, index + 2, Len(seq))

\* measurement.removePoint(side, index), index counted from 0
removePoint(i, side, index) ==
  /\ i \in DOMAIN measures
  /\ lastOp' = "removePoint"
  /\ lastArg' = i
  /\ IF side \notin {"left", "right"}
     THEN /\ lastResult' = Bool(FALSE)
          /\ UNCHANGED modelVars
     ELSE LET ref == SideRef(measures[i], side)
              arrs == [arrays EXCEPT ![ref] = Splice1(@, index)]
          IN  IF index < 0 \/ index >= Len(arrays[ref])
              THEN /\ lastResult' = Bool(FALSE)
                   /\ UNCHANGED modelVars
              ELSE /\ Settle(arrs, Recalculated(arrs, i))
                   /\ lastResult' = Bool(TRUE)
  /\ measureFrame

\* measurement.updatePoint(side, index, newPoint), index counted from 0
updatePoint(i, side, index, newPoint) ==
  /\ i \in DOMAIN measures
  /\ lastOp' = "updatePoint"
  /\ lastArg' = i
  /\ IF side \notin {"left", "right"}
     THEN /\ lastResult' = Bool(FALSE)
          /\ UNCHANGED modelVars
     ELSE LET ref == SideRef(measures[i], side)
              arrs == [arrays EXCEPT ![ref][index + 1] = newPoint]
          IN  IF index < 0 \/ index >= Len(arrays[ref]) \/ newPoint = Null
              THEN /\ lastResult' = Bool(FALSE)
                   /\ UNCHANGED modelVars
              ELSE /\ Settle(arrs, Recalculated(arrs, i))
                   /\ lastResult' = Bool(TRUE)
  /\ measureFrame

\* measurement.clearPoints(side): the side named, or both when side is empty,
\* gets a new, empty array
clearPoints(i, side) ==
  /\ i \in DOMAIN measures
  /\ LET doL == side = "" \/ side = "left"
         doR == side = "" \/ side = "right"
         a1 == IF doL THEN Append(arrays, <<>>) ELSE arrays
         a2 == IF doR THEN Append(a1, <<>>) ELSE a1
         m1 == [measures[i] EXCEPT
                  !.leftPoints = IF doL THEN Len(a1) ELSE @,
                  !.rightPoints = IF doR THEN Len(a2) ELSE @]
     IN  Settle(a2, [measures EXCEPT
                       ![i] = [m1 EXCEPT !.calculations = calculateOf(a2, m1)]])
  /\ lastOp' = "clearPoints"
  /\ lastArg' = i
  /\ lastResult' = Null
  /\ measureFrame

----------------------------------------------------------------------------
(* Listeners of the store *)

MaxListeners == 2    \* at most this many listeners are subscribed

ListenerIds == 1..MaxListeners

\* what the steps of a notification leave alone
roundFrame ==
  UNCHANGED <<heap, projects, currentProject, currentProjectId, settings,
              notified, storage, obsVars, undoVars, clock, scen, modelVars,
              room, pageVars>>

\* subscribe(listener), for a function that is not subscribed yet
subscribe(listener) ==
  /\ CanCall
  /\ \A i \in 1..Len(listeners) : listeners[i] # listener
  /\ listeners' = Append(listeners, listener)
  /\ outer' = IF rounds = <<>> THEN Null ELSE outer
  /\ UNCHANGED <<isUpdating, rounds>>
  /\ roundFrame

\* the function that subscribe(listener) returned is called
unsubscribe(listener) ==
  LET hits == { i \in 1..Len(listeners) : listeners[i] = listener }
  IN  /\ CanCall
      /\ hits # {}
      /\ listeners' = splice(listeners, SetMin(hits) - 1)
      /\ outer' = IF rounds = <<>> THEN Null
                  ELSE [outer EXCEPT !.subscribed =
                          SelectSeq(@, LAMBDA l : l # listener)]
      /\ UNCHANGED <<isUpdating, rounds>>
      /\ roundFrame

\* listeners.forEach reaches its next index, one of those the array had when
\* the loop began: the listener that is there now is called with the state
\* and the tag; an index that the array has no more is passed over
Call ==
  /\ rounds # <<>>
  /\ ~Top.running
  /\ Top.pos < Top.len
  /\ IF Top.pos < Len(listeners)
     THEN /\ rounds' = SetTop([Top EXCEPT !.running = TRUE])
          /\ outer' = [outer EXCEPT !.delivered =
                         Append(@, [listener |-> listeners[Top.pos + 1],
                                    action |-> Top.tags[1],
                                    state |-> getState(heap, projects,
                                                currentProject,
                                                currentProjectId, settings),
                                    depth |-> Len(rounds)])]
     ELSE /\ rounds' = SetTop([Top EXCEPT !.pos = @ + 1])
          /\ UNCHANGED outer
  /\ UNCHANGED <<isUpdating, listeners>>
  /\ roundFrame

\* the listener that was called returns, or throws an error that the loop
\* body catches
Return(threw) ==
  /\ rounds # <<>>
  /\ Top.running
  /\ rounds' = SetTop([Top EXCEPT !.running = FALSE, !.pos = @ + 1])
  /\ outer' = [outer EXCEPT !.threw = @ \/ threw]
  /\ UNCHANGED <<isUpdating, listeners>>
  /\ roundFrame

\* the loop is over and isUpdating is reset; the operation goes on to its
\* next notifyListeners call, if it has one, or returns
EndRound ==
  /\ rounds # <<>>
  /\ ~Top.running
  /\ Top.pos >= Top.len
  /\ IF Len(Top.tags) > 1 /\ listeners # <<>>
     THEN /\ rounds' = SetTop([tags |-> Tail(Top.tags), pos |-> 0,
                               len |-> Len(listeners), running |-> FALSE])
          /\ isUpdating' = TRUE
     ELSE /\ rounds' = SubSeq(rounds, 1, Len(rounds) - 1)
          /\ isUpdating' = FALSE
  /\ UNCHANGED <<listeners, outer>>
  /\ roundFrame

----------------------------------------------------------------------------
(* PersistenceManager *)

appVersion == "1.0.0"

\* UndoRedoManager.serialize()
serialize ==
  [history |-> history, currentIndex |-> currentIndex,
   maxHistory |-> maxHistory]

\* the setItem calls of saveAll() in their order, for the given store content
SaveWrites(h, projs, curId, sett) ==
  << [key |-> "version",          value |-> appVersion],
     [key |-> "projects",         value |-> ProjectsJSON(h, projs)],
     [key |-> "currentProjectId", value |-> curId],
     [key |-> "settings",         value |-> sett],
     [key |-> "undoHistory",      value |-> serialize] >>

\* localStorage after saveAll() with the given outcome: the writes before
\* the failing one are kept; handleQuotaExceeded removes the undo history
\* when the error is named QuotaExceededError
saveAll(st, h, projs, curId, sett, outcome) ==
  LET writes  == SaveWrites(h, projs, curId, sett)
      done    == IF outcome.at = 0 THEN 0 ELSE outcome.at - 1
      written == [k \in DOMAIN st |->
                    IF \E i \in 1..Min(done, Len(writes)) : writes[i].key = k
                    THEN << (writes[CHOOSE i \in 1..Len(writes) :
                                      writes[i].key = k]).value >>
                    ELSE st[k]]
  IN  IF outcome.at \in 1..5 /\ outcome.name = "QuotaExceededError"
      THEN [written EXCEPT !.undoHistory = <<>>]
      ELSE written

\* the shape test that lets a document with projects through, whether it
\* has a version or not
InvalidFormatProjectsOnly(data) == data.projects = <<>>

\* the shape test of importAllData on the parsed document: projects or
\* version is missing (or is another falsy value)
InvalidFormat(data) == data.projects = <<>> \/ data.version = <<>>

\* the projects of a document are an array: <<l>> holds the array l, and
\* <<l, "object">> a value that is none, on which map is not a function
IsArray(x) == Len(x) = 1

\* the projects that importAllData makes from the document and assigns to
\* state.projects, and the settings after updateSettings(data.settings || {})
ImportedStore(data) ==
  LET keep   == IF currentProject = NoRef THEN {} ELSE {currentProject}
      docs   == data.projects[1]
      refs   == NewRefs(Len(docs), keep)
  IN  [heap |-> [r \in Range(refs) \cup keep |->
                   IF r \in keep THEN heap[r]
                   ELSE fromJSON(docs[CHOOSE i \in 1..Len(refs) : refs[i] = r])],
       projects |-> refs,
       settings |-> Spread(settings,
                           IF data.settings = <<>> THEN {}
                           ELSE data.settings[1])]

\* importAllData(file), from the parsed file on: a document without projects
\* or version is rejected, and so is, by the TypeError that is caught, one
\* whose projects are no array; otherwise state.projects is assigned the
\* projects made from the document, the document's settings go through
\* updateSettings, and saveAll() follows
importAllData(data, outcome) ==
  /\ lastOp' = "importAllData"
  /\ lastArg' = Null
  /\ pre' = Null
  /\ IF InvalidFormat(data) \/ ~IsArray(data.projects)
     THEN /\ lastResult' = [kind |-> "Error",
                            message |-> IF InvalidFormat(data)
                                        THEN "Invalid backup file format"
                                        ELSE "data.projects.map is not a function"]
          /\ notified' = <<>>
          /\ UNCHANGED <<heap, projects, currentProject, settings, storage>>
     ELSE LET imp == ImportedStore(data)
          IN  /\ Objects(imp.heap, imp.projects, currentProject)
              /\ settings' = imp.settings
              /\ notified' = notifyListeners(<<>>, "SETTINGS_UPDATED")
              /\ storage' = saveAll(storage, imp.heap, imp.projects,
                                    currentProjectId, imp.settings, outcome)
              /\ lastResult' = Bool(TRUE)
  /\ UNCHANGED currentProjectId
  /\ Deliveries("importAllData")
  /\ storeFrame

\* What the store holds for a reader of a backup: the names of the projects
\* in order, the points and calculations of the measurements of each, and
\* the settings.
Contents(h, projs, sett) ==
  [names |-> ProjectNames(h, projs),
   measurements |->
     [i \in 1..Len(projs) |->
        [k \in 1..Len(h[projs[i]].measurements) |->
           [leftPoints |-> h[projs[i]].measurements[k].leftPoints,
            rightPoints |-> h[projs[i]].measurements[k].rightPoints,
            calculations |-> h[projs[i]].measurements[k].calculations]]],
   settings |-> sett]

\* exportAllData(): the document that is written to the file and comes back
\* from JSON.parse.  The values of the store (texts, finite numbers, arrays
\* and plain objects) come back as they are, and a Measurement as a plain
\* object.  scen keeps the document and what the store held.
exportAllData ==
  /\ rounds = <<>>
  /\ lastOp' = "exportAllData"
  /\ lastArg' = Null
  /\ pre' = Null
  /\ lastResult' = Null
  /\ scen' = [phase |-> "exported",
              file |-> [version |-> <<appVersion>>,
                        projects |-> <<ProjectsJSON(heap, projects)>>,
                        settings |-> <<settings>>],
              contents |-> Contents(heap, projects, settings)]
  /\ UNCHANGED <<undoVars, storeVars, storage, clock>>

\* what the managers hold, and whether they have just been saved
Held ==
  [projects |-> ProjectsJSON(heap, projects),
   currentProjectId |-> currentProjectId, settings |-> settings,
   undo |-> serialize,
   saved |-> lastOp = "saveAll" /\ lastResult = Bool(TRUE)]

\* the page is opened anew and has a new StateManager() and a new
\* UndoRedoManager(); what localStorage holds stays.  pre keeps what the
\* managers of the page before held.
newStateManager ==
  /\ rounds = <<>>
  /\ lastOp' = "new"
  /\ lastArg' = Null
  /\ pre' = Held
  /\ lastResult' = Null
  /\ heap' = <<>>
  /\ projects' = <<>>
  /\ currentProject' = NoRef
  /\ currentProjectId' = NoId
  /\ settings' = getDefaultSettings
  /\ isUpdating' = FALSE
  /\ notified' = <<>>
  /\ listeners' = <<>>
  /\ history' = <<>>
  /\ currentIndex' = -1
  /\ maxHistory' = DefaultMaxHistory
  /\ isEnabled' = TRUE
  /\ undoNotice' = Null
  /\ UNCHANGED <<rounds, outer, modelVars, room, pageVars, storage, clock,
                 scen>>

\* The text under a key: <<>> when the key is absent, <<v>> when it holds the
\* text of the value v, and <<v, "cut">> when it holds that text cut short,
\* which JSON.parse rejects.
Parses(x) == Len(x) = 1

\* the room a key with its text takes, in units of one short text: a project
\* takes two, an entry of the undo log one
SizeOf(k, x) ==
  CASE x = <<>> -> 0
    [] k = "projects" -> 1 + 2 * Len(x[1])
    [] k = "undoHistory" -> 1 + Len(x[1].history)
    [] OTHER -> 1

Usage(st) ==
  SizeOf("version", st.version) + SizeOf("projects", st.projects)
    + SizeOf("currentProjectId", st.currentProjectId)
    + SizeOf("settings", st.settings)
    + SizeOf("undoHistory", st.undoHistory)

\* localStorage.setItem(key, value) goes through
Fits(st, k, v) == Usage([st EXCEPT ![k] = <<v>>]) <= room

\* isLocalStorageAvailable(): the test key, which takes one unit, is set and
\* removed
isLocalStorageAvailable(st) == Usage(st) + 1 <= room

\* the first of the writes from the i-th on that does not go through, or
\* Len(writes) + 1
RECURSIVE FirstFull(_, _, _)
FirstFull(st, writes, i) ==
  IF i > Len(writes) THEN i
  ELSE IF Fits(st, writes[i].key, writes[i].value)
       THEN FirstFull([st EXCEPT ![writes[i].key] = <<writes[i].value>>],
                      writes, i + 1)
       ELSE i

\* how saveAll() goes with the room there is
SaveOutcome(st, h, projs, curId, sett) ==
  [at |-> IF isLocalStorageAvailable(st)
          THEN FirstFull(st, SaveWrites(h, projs, curId, sett), 1)
          ELSE 0,
   name |-> "QuotaExceededError"]

\* the writes of saveAll() for the store go through on the storage st
StoreFits(st, h, projs, curId, sett) ==
  /\ isLocalStorageAvailable(st)
  /\ FirstFull(st, SubSeq(SaveWrites(h, projs, curId, sett), 1, 4), 1) = 5

\* a call of saveAll(); pre keeps how it went and whether the store would go
\* through once it has returned
saveAllCall ==
  /\ rounds = <<>>
  /\ LET o == SaveOutcome(storage, heap, projects, currentProjectId, settings)
     IN  /\ storage' = saveAll(storage, heap, projects, currentProjectId,
                               settings, o)
         /\ lastResult' = Bool(o.at = 6)
         /\ pre' = [outcome |-> o,
                    fits |-> StoreFits(storage', heap, projects,
                                       currentProjectId, settings)]
  /\ lastOp' = "saveAll"
  /\ lastArg' = Null
  /\ UNCHANGED <<undoVars, heap, projects, currentProject, currentProjectId,
                 settings, notified, notifyVars, modelVars, room, clock>>

\* the debounced auto-save runs saveAll(), where the timer is not looked at
autoSave == saveAllCall /\ UNCHANGED <<pageVars, scen>>

autoSaveDelay == 2   \* 2000 ms, in ticks of 1000 ms

MaxTime == 6         \* the ticks that are followed

\* clearTimeout that cancels nothing
clearTimeoutKeeps(tm, id) == tm

\* clearTimeout(id): the pending timer with that id, if there is one, is
\* cancelled
clearTimeout(tm, id) == { t \in tm : t[1] # id }

\* setTimeout(later, wait) at the time now: the id of the new timer (one that
\* no pending timer has) and the pending timers
setTimeout(tm, wait, now) ==
  LET id == SetMin((1..(Cardinality(tm) + 1)) \ { t[1] : t \in tm })
  IN  [id |-> id, timers |-> tm \cup { <<id, now + wait>> }]

\* the debounce of scheduleAutoSave: what the store was called for last, and
\* the saves since
Burst(at, saves, savedAt) ==
  [phase |-> "burst", lastCall |-> at, saves |-> saves, savedAt |-> savedAt]

\* scheduleAutoSave(): nothing when auto-save is off; else the function that
\* debounce returned cancels the timer in timeout and sets a new one
scheduleAutoSave ==
  /\ rounds = <<>>
  /\ clock + autoSaveDelay <= MaxTime
  /\ lastOp' = "scheduleAutoSave"
  /\ lastArg' = Null
  /\ lastResult' = Null
  /\ pre' = Null
  /\ IF ~autoSaveEnabled
     THEN UNCHANGED <<timers, timeout, scen>>
     ELSE LET set == setTimeout(clearTimeout(timers, timeout), autoSaveDelay,
                                clock)
          IN  /\ timers' = set.timers
              /\ timeout' = set.id
              /\ scen' = Burst(clock, 0, 0)
  /\ UNCHANGED <<undoVars, heap, projects, currentProject, currentProjectId,
                 settings, notified, notifyVars, modelVars, room, storage,
                 clock, autoSaveEnabled, appVars>>

\* a timer that is due runs debounce's later: clearTimeout(timeout), then
\* saveAll()
later(t) ==
  /\ t \in timers
  /\ clock >= t[2]
  /\ timers' = clearTimeout(timers \ {t}, timeout)
  /\ scen' = IF scen.phase = "burst"
             THEN Burst(scen.lastCall, scen.saves + 1, clock)
             ELSE scen
  /\ saveAllCall
  /\ UNCHANGED <<timeout, autoSaveEnabled, appVars>>

\* setAutoSave(enabled)
setAutoSave(enabled) ==
  /\ rounds = <<>>
  /\ autoSaveEnabled' = enabled
  /\ lastOp' = "setAutoSave"
  /\ lastArg' = Null
  /\ lastResult' = Null
  /\ pre' = Null
  /\ UNCHANGED <<undoVars, heap, projects, currentProject, currentProjectId,
                 settings, notified, notifyVars, modelVars, room, storage,
                 clock, timers, timeout, appVars, scen>>

\* time passes while the timers are looked at
TimePasses ==
  /\ clock < MaxTime
  /\ clock' = clock + 1
  /\ UNCHANGED <<undoVars, storeVars, storage, scen, obsVars>>

OldVersion == "0.9.0"

\* migrateData: the version key is set to the version of the application
migrateData(st) ==
  IF st.version # <<>> /\ st.version[1] # appVersion
  THEN [st EXCEPT !.version = <<appVersion>>]
  ELSE st

loadProjects(st) == IF Parses(st.projects) THEN st.projects[1] ELSE <<>>

\* loadSettings(), as the optional settings of a document for loadState
loadSettings(st) ==
  IF Parses(st.settings) THEN <<st.settings[1]>> ELSE <<getDefaultSettings>>

loadCurrentProjectId(st) ==
  IF st.currentProjectId = <<>> THEN NoId ELSE st.currentProjectId[1]

\* the document that loadUndoHistory hands to deserialize
StoredUndoData(st) ==
  [history |-> <<st.undoHistory[1].history>>,
   currentIndex |-> <<st.undoHistory[1].currentIndex>>,
   maxHistory |-> <<st.undoHistory[1].maxHistory>>]

\* loadAll()
loadAll ==
  /\ rounds = <<>>
  /\ lastOp' = "loadAll"
  /\ lastArg' = Null
  /\ pre' = Null
  /\ IF ~isLocalStorageAvailable(storage)
     THEN /\ lastResult' = Bool(FALSE)
          /\ notified' = <<>>
          /\ UNCHANGED <<undoVars, heap, projects, currentProject,
                         currentProjectId, settings, storage, scen>>
     ELSE /\ lastResult' = Bool(TRUE)
          /\ storage' = migrateData(storage)
          /\ IF Parses(storage.undoHistory)
             THEN /\ Restored(StoredUndoData(storage))
                  /\ scen' = ScenAfter("deserialize", TRUE)
             ELSE UNCHANGED <<undoVars, scen>>
          /\ LoadedState([projects |-> loadProjects(storage),
                          settings |-> loadSettings(storage),
                          currentProjectId |-> loadCurrentProjectId(storage)])
  /\ Deliveries("loadAll")
  /\ UNCHANGED <<clock, modelVars, room, pageVars>>

\* What happens to the keys outside the application: a key is removed, the
\* text of a key is cut short, or the version key is that of an earlier
\* version.
Tamper(k, how) ==
  /\ rounds = <<>>
  /\ storage[k] # <<>>
  /\ CASE how = "remove" -> storage' = [storage EXCEPT ![k] = <<>>]
       [] how = "cut" -> /\ k \in {"projects", "settings", "undoHistory"}
                         /\ Parses(storage[k])
                         /\ storage' = [storage EXCEPT ![k] = <<@[1], "cut">>]
       [] OTHER -> /\ k = "version"
                   /\ storage[k] # <<OldVersion>>
                   /\ storage' = [storage EXCEPT ![k] = <<OldVersion>>]
  /\ UNCHANGED <<undoVars, storeVars, clock, scen, obsVars>>

\* other pages of the origin take up or give back room
OtherPages(n) ==
  /\ rounds = <<>>
  /\ n # room
  /\ Usage(storage) <= n
  /\ room' = n
  /\ UNCHANGED <<undoVars, heap, projects, currentProject, currentProjectId,
                 settings, notified, notifyVars, modelVars, pageVars, storage,
                 clock, scen, obsVars>>

----------------------------------------------------------------------------
vars == <<history, currentIndex, maxHistory, isEnabled, undoNotice, clock,
          heap, projects, currentProject, currentProjectId, settings,
          isUpdating, notified, listeners, rounds, outer, arrays, measures,
          room, timers, timeout, autoSaveEnabled, inputs, lastCalculation,
          handler, handlerArg, storage,
          lastOp, lastArg, lastResult, pre, scen>>

AbsentKeys ==
  [version |-> <<>>, projects |-> <<>>, currentProjectId |-> <<>>,
   settings |-> <<>>, undoHistory |-> <<>>]

\* new StateManager() and the page before anything is done on it
InitManagers ==
  /\ heap = <<>>
  /\ projects = <<>>
  /\ currentProject = NoRef
  /\ currentProjectId = NoId
  /\ settings = getDefaultSettings
  /\ isUpdating = FALSE
  /\ notified = <<>>
  /\ listeners = <<>>
  /\ rounds = <<>>
  /\ outer = Null
  /\ arrays = <<>>
  /\ measures = <<>>
  /\ room = MaxRoom
  /\ timers = {}
  /\ timeout = NoTimer
  /\ autoSaveEnabled = TRUE
  /\ inputs = NoInputs
  /\ lastCalculation = Null
  /\ handler = Idle
  /\ handlerArg = NoId

\* new StateManager(), and a localStorage without the application's keys
InitStore ==
  /\ InitManagers
  /\ storage = AbsentKeys

\* new UndoRedoManager(bound), nothing carried out yet
NewManager(bound) ==
  /\ history = <<>>
  /\ currentIndex = -1
  /\ maxHistory = bound
  /\ isEnabled = TRUE
  /\ undoNotice = Null
  /\ clock = 0
  /\ lastOp = "new"
  /\ lastArg = Null
  /\ lastResult = Null
  /\ pre = Null
  /\ scen = [phase |-> "push", n |-> 0, k |-> 0, base |-> <<>>]

\* new UndoRedoManager(maxHistory)
InitUndo ==
  /\ \E bound \in 1..MaxHistoryArg : NewManager(bound)
  /\ InitStore

NextUndo ==
  \/ \E s \in Snapshots, a \in Actions : push(s, a)
  \/ undo
  \/ redo
  \/ clear
  \/ \E b \in BOOLEAN : setEnabled(b)
  \/ Tick

\* a manager driven by push, undo, redo, clear and setEnabled
SpecUndo == InitUndo /\ [][NextUndo]_vars

NextUndoFull ==
  \/ \E s \in Snapshots, a \in Actions : push(s, a)
  \/ undo
  \/ redo
  \/ clear
  \/ \E b \in BOOLEAN : setEnabled(b)
  \/ \E d \in UndoData : deserialize(d)
  \/ Tick

\* a manager that is also restored from stored data
SpecUndoFull == InitUndo /\ [][NextUndoFull]_vars

----------------------------------------------------------------------------
(* Properties of the undo/redo manager *)

\* the entries of a log up to and including the one at (0-based) cursor idx
UpToCursor(h, idx) == SubSeq(h, 1, idx + 1)

\* s is t without its first j entries, for some j
IsSuffix(s, t) ==
  \E j \in 0..Len(t) : s = SubSeq(t, j + 1, Len(t))

\* C2: with tracking enabled, a push keeps of the old log only entries at or
\* before the cursor (every entry after the cursor is removed), appends the
\* new entry as the last one and leaves the cursor on it, so that canRedo()
\* is false; and a redo() that directly follows such a push returns null and
\* leaves the log and the cursor alone.
C2_PushDiscardsRedoBranch ==
  /\ (lastOp = "push" /\ isEnabled) =>
       /\ history # <<>>
       /\ IsSuffix(SubSeq(history, 1, Len(history) - 1),
                   UpToCursor(pre.history, pre.currentIndex))
       /\ history[Len(history)].state = lastArg.state
       /\ currentIndex = Len(history) - 1
       /\ ~canRedo
  /\ (lastOp = "redo" /\ pre.lastOp = "push" /\ pre.isEnabled) =>
       /\ lastResult = Null
       /\ history = pre.history
       /\ currentIndex = pre.currentIndex

\* a push that found the cursor before the tail, so that entries were removed
C2_Witness ==
  /\ lastOp = "push"
  /\ isEnabled
  /\ pre.currentIndex < Len(pre.history) - 1
  /\ Len(history) = pre.currentIndex + 2
  /\ Len(history) < maxHistory

\* C3: after maxHistory + k recorded pushes (k >= 0) onto a new log the log
\* holds exactly maxHistory entries and the cursor is on the entry pushed
\* last: getCurrentState() is the snapshot of the last push.
C3_BoundedLog ==
  (scen.phase = "push" /\ scen.n >= maxHistory) =>
    /\ Len(history) = maxHistory
    /\ currentIndex = Len(history) - 1
    /\ getCurrentState = lastArg.state

\* more pushes than the bound: the oldest entry has been evicted
C3_Witness ==
  /\ scen.phase = "push"
  /\ scen.n >= maxHistory + 2
  /\ maxHistory >= 2
  /\ history[1].state # history[2].state

\* C4: after N pushes onto an empty log (N within the bound), the k-th of
\* N-1 undos returns entry N-k and the k-th of the N-1 redos that follow
\* returns entry k+1; the log stays as the pushes left it and the cursor ends
\* on entry N.
C4_UndoRedoRoundTrip ==
  /\ scen.phase = "undo" =>
       /\ history = scen.base
       /\ Len(history) = scen.n
       /\ lastResult = history[scen.n - scen.k]
       /\ currentIndex = scen.n - scen.k - 1
  /\ scen.phase = "redo" =>
       /\ history = scen.base
       /\ Len(history) = scen.n
       /\ lastResult = history[scen.k + 1]
       /\ currentIndex = scen.k
       /\ (scen.k = scen.n - 1 => currentIndex = Len(history) - 1)

\* three pushes, two undos and two redos have been carried out
C4_Witness ==
  /\ scen.phase = "redo"
  /\ scen.n = 3
  /\ scen.k = 2
  /\ history[2] # history[3]

\* C5: the cursor is -1 exactly when the log is empty, and addresses an
\* entry of the log otherwise.
C5_CursorInLog ==
  /\ (currentIndex = -1) <=> (history = <<>>)
  /\ history # <<>> => (0 <= currentIndex /\ currentIndex <= Len(history) - 1)

\* an undo has moved the cursor to the first entry of a longer log
C5_Witness ==
  /\ lastOp = "undo"
  /\ currentIndex = 0
  /\ Len(history) >= 2
  /\ lastResult # Null

\* C6: undo() with the cursor at or before the first entry, and redo() with
\* the cursor at the tail, return null and change neither log nor cursor;
\* otherwise undo() moves the cursor back by one and redo() forward by one,
\* returns the entry at the new cursor and leaves the log as it was.
C6_UndoRedoStep ==
  /\ lastOp = "undo" =>
       IF pre.currentIndex <= 0
       THEN /\ lastResult = Null
            /\ history = pre.history
            /\ currentIndex = pre.currentIndex
       ELSE /\ currentIndex = pre.currentIndex - 1
            /\ history = pre.history
            /\ lastResult # Null
            /\ lastResult = At(history, currentIndex)
  /\ lastOp = "redo" =>
       IF pre.currentIndex = Len(pre.history) - 1
       THEN /\ lastResult = Null
            /\ history = pre.history
            /\ currentIndex = pre.currentIndex
       ELSE /\ currentIndex = pre.currentIndex + 1
            /\ history = pre.history
            /\ lastResult # Null
            /\ lastResult = At(history, currentIndex)

\* C7: after deserialize(data) the cursor is within the restored log: -1
\* when the log is empty, and between 0 and length-1 otherwise.
C7_DeserializeClampsCursor ==
  lastOp = "deserialize" =>
    IF history = <<>>
    THEN currentIndex = -1
    ELSE 0 <= currentIndex /\ currentIndex <= Len(history) - 1

----------------------------------------------------------------------------
(* The store with the persistence manager's import *)

\* the managers as the LandCalculatorApp constructor makes them
InitApp ==
  /\ NewManager(DefaultMaxHistory)
  /\ InitStore

NextStore ==
  \/ \E name \in NameInputs : addProject(name)
  \/ \E id \in DocIds \cup {FirstNewId, FirstNewId + 1} : removeProject(id)
  \/ \E id \in {NoId} \cup DocIds \cup {FirstNewId, FirstNewId + 1} :
        setCurrentProject(id)
  \/ \E name \in NameInputs : updateCurrentProject(name)
  \/ \E u \in SettingsInputs : updateSettings(u)
  \/ clearAll
  \/ \E d \in StateDocs : loadState(d)
  \/ \E d \in BackupDocs, o \in ImportOutcomes : importAllData(d, o)

SpecStore == InitApp /\ [][NextStore]_vars

----------------------------------------------------------------------------
(* Properties of the store *)

IdInputs == {NoId} \cup DocIds \cup {FirstNewId, FirstNewId + 1}

\* C1: currentProjectId is null or the id of a project of the store.
C1_CurrentProjectIdResolves ==
  \/ currentProjectId = NoId
  \/ \E i \in 1..Len(projects) : heap[projects[i]].id = currentProjectId

\* C8: addProject(p), when a project of the store has p's name up to letter
\* case, returns false, changes neither the projects nor the current
\* project, and delivers no notification.
C8_AddProjectRejectsSameName ==
  [][ \A name \in NameInputs :
        ( /\ addProject(name)
          /\ \E i \in 1..Len(projects) :
               toLowerCase(heap[projects[i]].name) = toLowerCase(name) )
        => ( /\ lastResult' = Bool(FALSE)
             /\ UNCHANGED <<heap, projects, currentProject, currentProjectId>>
             /\ notified' = <<>> ) ]_vars

\* C9: the names of the projects of the store are pairwise different when
\* trimmed and compared without regard to letter case, and every name has a
\* trimmed length between 3 and 50.
C9_NamesDistinctAndSized ==
  /\ \A i, j \in 1..Len(projects) :
       i # j => toLowerCase(trim(heap[projects[i]].name))
                  # toLowerCase(trim(heap[projects[j]].name))
  /\ \A i \in 1..Len(projects) :
       /\ Len(trim(heap[projects[i]].name)) >= MinNameLength
       /\ Len(trim(heap[projects[i]].name)) <= MaxNameLength

----------------------------------------------------------------------------
(* The calculations *)

\* two arrays of points are at hand
InitCalc ==
  /\ history = <<>>
  /\ currentIndex = -1
  /\ maxHistory = DefaultMaxHistory
  /\ isEnabled = TRUE
  /\ undoNotice = Null
  /\ clock = 0
  /\ lastOp = "points"
  /\ lastArg \in [leftPoints : PointArrays, rightPoints : PointArrays]
  /\ lastResult = Null
  /\ pre = Null
  /\ scen = ScenOff
  /\ InitStore

NextCalc == calculate

\* calculateMeasurements applied to any two arrays of points
SpecCalc == InitCalc /\ [][NextCalc]_vars

\* C15: whenever the left or the right array has fewer than 2 points,
\* calculateMeasurements returns (it does not throw) an aggregate in which
\* leftDistance, rightDistance, avgWidth, length, area and areaDecimal are
\* all zero.
C15_FewPointsAllZero ==
  ( /\ lastOp = "calculateMeasurements"
    /\ Len(lastArg.leftPoints) < 2 \/ Len(lastArg.rightPoints) < 2 )
  => lastResult = NoCalculations

C17_RectangleScenario ==
  ( /\ lastOp = "calculateMeasurements"
    /\ lastArg.leftPoints = << Pt(0, 0), Pt(100, 0) >>
    /\ lastArg.rightPoints = << Pt(0, 50), Pt(100, 50) >> )
  => /\ lastResult.leftDistance = 100 * Unit
     /\ lastResult.rightDistance = 100 * Unit
     /\ lastResult.avgWidth = 50 * Unit
     /\ lastResult.length = 100 * Unit

----------------------------------------------------------------------------
(* The store with its measurements *)

MeasureDocs ==
  { [projects |-> << DocProject(1, <<"a", "b", "c">>),
                     DocProject(2, <<"x", "x", "x">>) >>,
     settings |-> <<>>, currentProjectId |-> id] : id \in {NoId, 1} }

NextMeasure ==
  \/ \E name \in NotifyNames : addProject(name)
  \/ \E id \in NotifyIds : removeProject(id)
  \/ \E id \in {NoId, 2, FirstNewId} : setCurrentProject(id)
  \/ \E m \in MeasurementInputs : addMeasurement(m)
  \/ \E id \in MeasurementIds : removeMeasurement(id)
  \/ \E d \in MeasureDocs : loadState(d)

\* projects are added, removed, selected and loaded, and measurements are
\* added to and removed from the current project
SpecMeasure == InitApp /\ [][NextMeasure]_vars

\* C11: with no current project, addMeasurement and removeMeasurement return
\* false, deliver no notification, change no project's measurements and
\* create no project; with a current project they change nothing but the
\* measurements of that project.
C11_MeasurementsOfCurrentProject ==
  [][ ( \/ \E m \in MeasurementInputs : addMeasurement(m)
        \/ \E id \in MeasurementIds : removeMeasurement(id) )
      => IF currentProject = NoRef
         THEN /\ lastResult' = Bool(FALSE)
              /\ notified' = <<>>
              /\ UNCHANGED <<rounds, heap, projects, currentProject,
                             currentProjectId>>
         ELSE /\ UNCHANGED <<projects, currentProject, currentProjectId>>
              /\ DOMAIN heap' = DOMAIN heap
              /\ \A r \in DOMAIN heap :
                   IF r = currentProject
                   THEN heap'[r] = [heap[r] EXCEPT !.measurements =
                                      heap'[r].measurements]
                   ELSE heap'[r] = heap[r] ]_vars

\* a measurement was added to one of two projects, the selection was
\* cleared, and a further addMeasurement has been refused
C11_Witness ==
  /\ lastOp = "addMeasurement"
  /\ lastResult = Bool(FALSE)
  /\ currentProject = NoRef
  /\ Len(projects) = 2
  /\ heap[projects[1]].measurements # <<>>
  /\ heap[projects[2]].measurements = <<>>

----------------------------------------------------------------------------
(* The store with its listeners *)

\* the listener that is running
Running == outer.delivered[Len(outer.delivered)].listener

\* From the top level the page calls every operation of the store, and
\* subscribes and unsubscribes listeners; a listener, while it runs, resets
\* the store and unsubscribes itself.
NextNotify ==
  \/ rounds = <<>> /\ addProject(<<"a", "b", "c">>)
  \/ rounds = <<>> /\ removeProject(FirstNewId)
  \/ rounds = <<>> /\ \E id \in {NoId, FirstNewId} : setCurrentProject(id)
  \/ rounds = <<>> /\ \E m \in MeasurementInputs : m.id = 21 /\ addMeasurement(m)
  \/ rounds = <<>> /\ removeMeasurement(21)
  \/ rounds = <<>> /\ \E d \in MeasureDocs : d.currentProjectId = 1 /\ loadState(d)
  \/ rounds = <<>> /\ \E u \in SettingsInputs \ {{}} : updateSettings(u)
  \/ clearAll
  \/ rounds = <<>> /\ \E l \in ListenerIds : subscribe(l)
  \/ \E l \in ListenerIds :
        /\ IF rounds = <<>> THEN TRUE ELSE Top.running /\ l = Running
        /\ unsubscribe(l)
  \/ Call
  \/ \E threw \in BOOLEAN : Return(threw)
  \/ EndRound

SpecNotify == InitApp /\ [][NextNotify]_vars

\* the tag that each operation notifies with
OpTag ==
  [addProject |-> "PROJECT_ADDED", removeProject |-> "PROJECT_REMOVED",
   setCurrentProject |-> "PROJECT_CHANGED",
   addMeasurement |-> "MEASUREMENT_ADDED",
   removeMeasurement |-> "MEASUREMENT_REMOVED",
   updateSettings |-> "SETTINGS_UPDATED", loadState |-> "STATE_LOADED",
   clearAll |-> "STATE_RESET"]

\* C12: when a successful mutating operation that was called with no
\* notification in flight has returned, every listener that was subscribed
\* (and did not unsubscribe meanwhile) has been handed a notification with
\* the operation's tag and the state as the operation left it (or as a
\* listener changed it since).
C12_EveryListenerNotified ==
  ( /\ rounds = <<>>
    /\ outer # Null
    /\ outer.op \in DOMAIN OpTag
    /\ outer.result \in {Bool(TRUE), Null} )
  => \A i \in 1..Len(outer.subscribed) :
       \E k \in 1..Len(outer.delivered) :
         /\ outer.delivered[k].listener = outer.subscribed[i]
         /\ outer.delivered[k].action = OpTag[outer.op]
         /\ outer.delivered[k].state = outer.post \/ outer.nested

\* C13: at most one notification is in flight: isUpdating is set exactly
\* while it is, every listener call belongs to a notification of the
\* outermost operation (an operation that a listener carries out starts
\* none), a notification calls no listener twice and at most as many as
\* were subscribed when it began, and when the outermost operation has
\* returned isUpdating is clear again, whether a listener threw or not.
C13_OneNotificationInFlight ==
  /\ Len(rounds) <= 1
  /\ isUpdating <=> rounds # <<>>
  /\ rounds # <<>> => Top.pos <= Top.len
  /\ outer # Null =>
       /\ \A k \in 1..Len(outer.delivered) :
            /\ outer.delivered[k].depth = 1
            /\ outer.delivered[k].action \in Range(outer.tags)
       /\ \A j, k \in 1..Len(outer.delivered) :
            ( /\ j # k
              /\ outer.delivered[j].action = outer.delivered[k].action )
            => outer.delivered[j].listener # outer.delivered[k].listener
       /\ Len(outer.delivered) <= Len(outer.tags) * MaxListeners

\* an operation has returned after a notification of two listeners, during
\* which a listener threw and a listener reset the store
C13_Witness ==
  /\ rounds = <<>>
  /\ ~isUpdating
  /\ outer # Null
  /\ outer.threw
  /\ outer.nested
  /\ Len(outer.delivered) = 2
  /\ outer.post.projects # <<>>
  /\ projects = <<>>

NextMeasurement ==
  \/ \E l, r \in ArrayArgs : newMeasurement(l, r)
  \/ \E data \in MeasurementData : measurementFromJSON(data)
  \/ \E i \in MeasurementRefs, updates \in UpdateInputs : update(i, updates)
  \/ \E i \in MeasurementRefs, side \in Sides, point \in SidePoints \cup {Null} :
       addPoint(i, side, point)
  \/ \E i \in MeasurementRefs, side \in Sides, index \in -1..MaxSide :
       removePoint(i, side, index)
  \/ \E i \in MeasurementRefs, side \in Sides, index \in -1..MaxSide,
        newPoint \in SidePoints \cup {Null} :
       updatePoint(i, side, index, newPoint)
  \/ \E i \in MeasurementRefs, side \in {"", "left", "right"} :
       clearPoints(i, side)

\* Measurement objects under their constructor, their operations and fromJSON
SpecMeasurement == InitApp /\ [][NextMeasurement]_vars

\* C14: the calculations of every measurement are calculateMeasurements of
\* the points it has at the moment
C14_CalculationsOfCurrentPoints ==
  \A i \in DOMAIN measures :
    measures[i].calculations = calculateOf(arrays, measures[i])

MaxSavedLog == 2     \* in SpecPersist the log grows to at most this length

\* a state of the calculator that is pushed onto the undo log
SavedSnapshot == CHOOSE s \in Snapshots : TRUE

NextSave ==
  \/ /\ Len(history) < MaxSavedLog
     /\ push(SavedSnapshot, "CALCULATE")
  \/ /\ projects = <<>>
     /\ addProject(<<"a", "b", "c">>)
  \/ \E id \in {NoId, FirstNewId} : setCurrentProject(id)
  \/ autoSave
  \/ \E n \in 0..MaxRoom : OtherPages(n)

\* the store, the undo log and localStorage under saveAll() with more or
\* less room
SpecSave == InitApp /\ [][NextSave]_vars

TamperInputs ==
  ({"projects", "settings", "currentProjectId", "undoHistory"}
     \X {"remove", "cut"}) \cup { <<"version", "old">> }

NextLoad ==
  \/ /\ history = <<>>
     /\ push(SavedSnapshot, "CALCULATE")
  \/ /\ projects = <<>>
     /\ addProject(<<"a", "b", "c">>)
  \/ setCurrentProject(FirstNewId)
  \/ updateSettings({ <<"theme", "dark">> })
  \/ autoSave
  \/ loadAll
  \/ \E t \in TamperInputs : Tamper(t[1], t[2])

\* the store, the undo log and localStorage under saveAll() and loadAll(),
\* with keys that are removed or damaged in between
SpecLoad == InitApp /\ [][NextLoad]_vars

\* C18: when a write of saveAll() has failed for lack of room, saveAll() has
\* returned false (no error reaches the caller) and the undo history key is
\* absent.
C18_QuotaFailureEvictsUndoHistory ==
  (lastOp = "saveAll" /\ pre.outcome.at < 6)
  => /\ lastResult = Bool(FALSE)
     /\ storage.undoHistory = <<>>

\* C19: when a write of saveAll() has failed for lack of room and the undo
\* history has been removed, the projects, the id of the current project
\* and the settings are in storage if there is room for them now.
C19_SaveRetriedAfterEviction ==
  ( /\ lastOp = "saveAll"
    /\ pre.outcome.at \in 1..5
    /\ pre.fits )
  => /\ storage.projects = <<ProjectsJSON(heap, projects)>>
     /\ storage.currentProjectId = <<currentProjectId>>
     /\ storage.settings = <<settings>>

\* what loadAll() is to leave in the store for the id under the key of the
\* current project: that id, if a loaded project has it
StoredCurrentId(st) ==
  IF \E i \in 1..Len(loadProjects(st)) :
       loadProjects(st)[i].id = loadCurrentProjectId(st)
  THEN loadCurrentProjectId(st)
  ELSE NoId

\* C20: after loadAll() on a storage in which a key is missing or does not
\* parse, loadAll() has succeeded, the store and the undo log hold what the
\* keys that parse hold, and the default for each of the others: no
\* projects, the default settings, no current project, an empty undo log.
C20_LoadAllFallsBackPerKey ==
  ( /\ lastOp = "loadAll"
    /\ \E k \in {"projects", "settings", "currentProjectId", "undoHistory"} :
         ~Parses(storage[k]) )
  => /\ lastResult = Bool(TRUE)
     /\ ProjectsJSON(heap, projects) = loadProjects(storage)
     /\ settings = Spread(getDefaultSettings, loadSettings(storage)[1])
     /\ currentProjectId = StoredCurrentId(storage)
     /\ history = IF Parses(storage.undoHistory)
                  THEN storage.undoHistory[1].history
                  ELSE <<>>

----------------------------------------------------------------------------
(* Backups *)

MeasuredProject ==
  [id |-> 1, name |-> <<"a", "b", "c">>,
   measurements |-> << MeasurementObject("Object", 23,
                                         << Pt(0, 0), Pt(100, 0) >>,
                                         << Pt(0, 50), Pt(100, 50) >>) >>]

\* the parsed backup files handed to importAllData where the store is looked
\* at together with localStorage: with or without settings, with projects
\* that have measurements or none, without a version, without projects, and
\* with projects that are no array
ImportDocs ==
  [version : { <<appVersion>> },
   projects : { << <<>> >>, << <<MeasuredProject>> >>,
                << <<DocProject(2, <<"x", "x", "x">>)>> >> },
   settings : { <<>>, << { <<"showGrid", "false">> } >> }]
    \cup { [version |-> <<>>, projects |-> << <<MeasuredProject>> >>,
            settings |-> <<>>],
           [version |-> <<appVersion>>, projects |-> <<>>,
            settings |-> << { <<"showGrid", "false">> } >>],
           [version |-> <<appVersion>>,
            projects |-> << <<MeasuredProject>>, "object" >>,
            settings |-> <<>>] }

\* importAllData(file) with the room there is for its saveAll()
importFile(data) ==
  importAllData(data,
                IF InvalidFormat(data) \/ ~IsArray(data.projects)
                THEN CHOOSE o \in ImportOutcomes : TRUE
                ELSE SaveOutcome(storage, ImportedStore(data).heap,
                                 ImportedStore(data).projects,
                                 currentProjectId,
                                 ImportedStore(data).settings))

NextImport ==
  \/ addProject(<<"a", "b", "c">>)
  \/ \E id \in {NoId, FirstNewId} : setCurrentProject(id)
  \/ \E m \in MeasurementInputs : m.id = 21 /\ addMeasurement(m)
  \/ updateSettings({ <<"theme", "dark">> })
  \/ autoSave
  \/ \E d \in ImportDocs : importFile(d)

\* the store and localStorage under importAllData()
SpecImport == InitApp /\ [][NextImport]_vars

NextBackup ==
  \/ addProject(<<"a", "b", "c">>)
  \/ setCurrentProject(FirstNewId)
  \/ \E m \in MeasurementInputs : m.id = 21 /\ addMeasurement(m)
  \/ updateSettings({ <<"theme", "dark">> })
  \/ exportAllData
  \/ newStateManager
  \/ scen.phase = "exported" /\ importFile(scen.file)

\* the store is exported, and the file is imported by the store or by a new
\* one
SpecBackup == InitApp /\ [][NextBackup]_vars

\* C21: importAllData of a document that lacks a projects array or a
\* version is rejected with an error and leaves the projects, the current
\* project id, the settings and every key of localStorage as they were.
C21_InvalidImportChangesNothing ==
  [][ \A d \in ImportDocs, o \in SaveOutcomes :
        ( /\ d.projects = <<>> \/ Len(d.projects) # 1 \/ d.version = <<>>
          /\ importAllData(d, o) )
        => ( /\ lastResult'.kind = "Error"
             /\ UNCHANGED <<heap, projects, currentProject, currentProjectId,
                            settings, storage>> ) ]_vars

\* a document has been rejected by a store that has a project, settings of
\* its own and its keys in localStorage
C21_Witness ==
  /\ lastOp = "importAllData"
  /\ lastResult.kind = "Error"
  /\ projects # <<>>
  /\ currentProjectId # NoId
  /\ settings # getDefaultSettings
  /\ storage.projects # <<>>
  /\ storage.settings # <<>>

\* C22: after a successful importAllData the projects of the store are
\* exactly those of the document, and its settings exactly the document's
\* settings over the defaults: no project and no setting from before
\* remains.
C22_ImportReplacesProjectsAndSettings ==
  [][ \A d \in ImportDocs, o \in SaveOutcomes :
        ( /\ d.projects # <<>> /\ Len(d.projects) = 1 /\ d.version # <<>>
          /\ importAllData(d, o) )
        => ( /\ lastResult' = Bool(TRUE)
             /\ ProjectsJSON(heap', projects') = d.projects[1]
             /\ settings' = Spread(getDefaultSettings,
                                   IF d.settings = <<>> THEN {}
                                   ELSE d.settings[1]) ) ]_vars

----------------------------------------------------------------------------
(* Auto-save *)

NextAutoSave ==
  \/ updateSettings({ <<"theme", "dark">> })
  \/ scheduleAutoSave
  \/ \E t \in timers : later(t)
  \/ \E enabled \in BOOLEAN : setAutoSave(enabled)
  \/ TimePasses

\* the page calls scheduleAutoSave() and setAutoSave() as time passes, and
\* the timers that are due run
SpecAutoSave == InitApp /\ [][NextAutoSave]_vars

\* time passes, and a timer that is due runs at last
SpecAutoSaveFair ==
  SpecAutoSave /\ WF_vars(TimePasses) /\ WF_vars(\E t \in timers : later(t))

\* C24: when scheduleAutoSave() has been called with auto-save enabled, at
\* most one timer is pending, saveAll() has run at most once since the last
\* call and not before autoSaveDelay had passed since then, and it runs at
\* last.
C24_AutoSaveDebounced ==
  /\ [](scen.phase = "burst" =>
          /\ Cardinality(timers) <= 1
          /\ scen.saves <= 1
          /\ scen.saves = 1 => /\ scen.savedAt >= scen.lastCall + autoSaveDelay
                               /\ timers = {}
          /\ scen.saves = 0 => timers = { <<timeout, scen.lastCall + autoSaveDelay>> })
  /\ (scen.phase = "burst" /\ scen.saves = 0) ~> (scen.phase = "burst" /\ scen.saves = 1)

\* after calls at different times saveAll() has run once, later than the
\* timer was due, and has written the settings of the last call's time
C24_Witness ==
  /\ lastOp = "saveAll"
  /\ scen.phase = "burst"
  /\ scen.lastCall >= 2
  /\ scen.saves = 1
  /\ scen.savedAt > scen.lastCall + autoSaveDelay
  /\ storage.settings = <<settings>>
  /\ settings # getDefaultSettings

----------------------------------------------------------------------------
(* loadState *)

\* C25: after loadState(snapshot), whatever the store held before, the
\* projects are exactly the snapshot's, the settings the snapshot's over the
\* defaults, and currentProjectId the snapshot's (null when it has none).
C25_LoadStateReplacesEverything ==
  [][ \A d \in MeasureDocs :
        loadState(d)
        => ( /\ ProjectsJSON(heap', projects') = d.projects
             /\ settings' = Spread(getDefaultSettings,
                                   IF d.settings = <<>> THEN {}
                                   ELSE d.settings[1])
             /\ currentProjectId' = d.currentProjectId ) ]_vars

----------------------------------------------------------------------------
(* Saving and loading *)

StaleDoc == [projects |-> <<>>, settings |-> <<>>, currentProjectId |-> NoId]

NextRoundTrip ==
  \/ /\ history = <<>>
     /\ push(SavedSnapshot, "CALCULATE")
  \/ /\ projects = <<>>
     /\ addProject(<<"a", "b", "c">>)
  \/ setCurrentProject(FirstNewId)
  \/ updateSettings({ <<"theme", "dark">> })
  \/ loadState(StaleDoc)
  \/ autoSave
  \/ newStateManager
  \/ loadAll

\* the managers are saved, the page is opened anew, and loadAll() fills the
\* new managers
SpecRoundTrip == InitApp /\ [][NextRoundTrip]_vars

\* C26: after a saveAll() that succeeded, loadAll() into a new StateManager
\* and a new UndoRedoManager succeeds and reproduces the projects (ids,
\* names, measurements), currentProjectId, the settings, and the undo log
\* with its cursor and bound.
C26_SaveLoadRoundTrip ==
  [][ ( /\ lastOp = "new"
        /\ pre # Null
        /\ pre.saved
        /\ loadAll )
      => ( /\ lastResult' = Bool(TRUE)
           /\ ProjectsJSON(heap', projects') = pre.projects
           /\ currentProjectId' = pre.currentProjectId
           /\ settings' = pre.settings
           /\ history' = pre.undo.history
           /\ currentIndex' = pre.undo.currentIndex
           /\ maxHistory' = pre.undo.maxHistory ) ]_vars

----------------------------------------------------------------------------
(* Points that are not finite *)

\* points with a coordinate that is a number, but not a finite one
NonFinitePoints == { [x |-> NaN, y |-> 0], [x |-> 0, y |-> NaN] }

NextPoints ==
  \/ \E l, r \in ArrayArgs : newMeasurement(l, r)
  \/ \E i \in MeasurementRefs, side \in Sides,
        point \in SidePoints \cup NonFinitePoints \cup {Null} :
       addPoint(i, side, point)
  \/ \E i \in MeasurementRefs, side \in Sides, index \in -1..MaxSide,
        newPoint \in SidePoints \cup NonFinitePoints \cup {Null} :
       updatePoint(i, side, index, newPoint)
  \/ \E i \in MeasurementRefs, side \in Sides, index \in -1..MaxSide :
       removePoint(i, side, index)

\* Measurement objects that are handed points of every kind
SpecPoints == InitApp /\ [][NextPoints]_vars

\* C27: addPoint and updatePoint with a point whose x or y is not a finite
\* number return false and leave the points and the calculations of every
\* measurement as they were.
C27_NonFinitePointRejected ==
  [][ \A i \in MeasurementRefs, side \in {"left", "right"},
         index \in 0..(MaxSide - 1), p \in NonFinitePoints :
        ( \/ addPoint(i, side, p)
          \/ updatePoint(i, side, index, p) )
        => ( /\ lastResult' = Bool(FALSE)
             /\ UNCHANGED <<arrays, measures>> ) ]_vars

----------------------------------------------------------------------------
(* Project.clone *)

\* Project objects of their own, outside the store.  The measurements of a
\* project are Measurement objects; an entry of project.measurements is the
\* reference of the object in measures, kept with the object's id.

cloneFrame ==
  UNCHANGED <<undoVars, projects, currentProject, currentProjectId, settings,
              notified, notifyVars, room, pageVars, storage, clock, scen,
              pre>>

\* the ids of the projects and of their measurements
ObjectIds(h) ==
  { h[r].id : r \in DOMAIN h }
    \cup UNION { { h[r].measurements[k].id :
                     k \in 1..Len(h[r].measurements) } : r \in DOMAIN h }

\* n results of generateUUID(): ids that are in use nowhere
RECURSIVE FreshIds(_, _)
FreshIds(n, used) ==
  IF n = 0 THEN <<>>
  ELSE LET id == SetMin((FirstNewId..(FirstNewId + Cardinality(used))) \ used)
       IN  <<id>> \o FreshIds(n - 1, used \cup {id})

\* new Project(name)
newProject(name) ==
  /\ heap = <<>>
  /\ heap' = << [id |-> FreshIds(1, {})[1], name |-> name,
                 measurements |-> <<>>] >>
  /\ lastOp' = "Project"
  /\ lastArg' = Null
  /\ lastResult' = 1
  /\ UNCHANGED modelVars
  /\ cloneFrame

\* project.addMeasurement(new Measurement(l, r))
projectAddMeasurement(p, l, r) ==
  /\ p \in DOMAIN heap
  /\ Len(measures) + 1 \in MeasurementRefs
  /\ ArgOk(l) /\ ArgOk(r)
  /\ LET c == Construct(arrays, l, r)
     IN  Settle(c.arrays, Append(measures, c.m))
  /\ heap' = [heap EXCEPT ![p].measurements =
                Append(@, [id |-> FreshIds(1, ObjectIds(heap))[1],
                           ref |-> Len(measures) + 1])]
  /\ lastOp' = "addMeasurement"
  /\ lastArg' = Null
  /\ lastResult' = Bool(TRUE)
  /\ cloneFrame

\* project.clone(newName): a new project, and for every measurement a new
\* object with the properties of the measurement ({ ...measurement }), so
\* with the same two arrays and the same calculations, and a new id
clone(p, newName) ==
  /\ p \in DOMAIN heap
  /\ Len(heap) < MaxProjects
  /\ LET n   == Len(heap[p].measurements)
         ids == FreshIds(n + 1, ObjectIds(heap))
     IN  /\ Settle(arrays,
                   measures \o [k \in 1..n |->
                                 measures[heap[p].measurements[k].ref]])
         /\ heap' = Append(heap,
                           [id |-> ids[1], name |-> newName,
                            measurements |->
                              [k \in 1..n |-> [id |-> ids[k + 1],
                                               ref |-> Len(measures) + k]]])
  /\ lastOp' = "clone"
  /\ lastArg' = Null
  /\ lastResult' = Len(heap) + 1
  /\ cloneFrame

\* measurement.leftPoints.push(point), or rightPoints, by whoever holds the
\* measurement: the copies that clone() makes are plain objects, without
\* addPoint
pushPoint(i, side, point) ==
  /\ i \in DOMAIN measures
  /\ Len(arrays[SideRef(measures[i], side)]) < MaxSide
  /\ Settle([arrays EXCEPT ![SideRef(measures[i], side)] = Append(@, point)],
            measures)
  /\ lastOp' = "pushPoint"
  /\ lastArg' = i
  /\ lastResult' = Null
  /\ UNCHANGED heap
  /\ cloneFrame

\* the Measurement objects of the project p
Owned(p) ==
  { heap[p].measurements[k].ref : k \in 1..Len(heap[p].measurements) }

\* a project is made, is given a measurement and is cloned; points are
\* added to, changed in and removed from the measurement through its
\* methods, and pushed onto the arrays of the measurement and of its copy
NextClone ==
  \/ newProject(<<"a", "b", "c">>)
  \/ \E l, r \in ArrayArgs : projectAddMeasurement(1, l, r)
  \/ clone(1, <<"x", "x", "x">>)
  \/ \E side \in {"left", "right"}, point \in SidePoints :
       heap # <<>> /\ 1 \in Owned(1) /\ addPoint(1, side, point)
  \/ \E side \in {"left", "right"}, index \in 0..(MaxSide - 1) :
       heap # <<>> /\ 1 \in Owned(1) /\ removePoint(1, side, index)
  \/ \E i \in 1..(2 * Cardinality(MeasurementRefs)),
        side \in {"left", "right"}, point \in SidePoints :
       pushPoint(i, side, point)

SpecClone == InitApp /\ [][NextClone]_vars

\* C28: the clone and each of its measurements have ids that no object of
\* the original has, and a change of a point list or of the calculations of
\* a measurement of one of the two projects leaves the point lists and the
\* calculations of the measurements of the other as they were.
C28_CloneIsDeepCopy ==
  [][ \A p, q \in DOMAIN heap :
        p # q =>
          /\ ObjectIds([r \in {p} |-> heap[r]])
                \cap ObjectIds([r \in {q} |-> heap[r]]) = {}
          /\ \A i \in Owned(p), j \in Owned(q) :
               ( /\ lastOp' \in {"addPoint", "removePoint", "pushPoint"}
                 /\ lastArg' = i )
               => /\ arrays'[measures'[j].leftPoints]
                       = arrays[measures[j].leftPoints]
                  /\ arrays'[measures'[j].rightPoints]
                       = arrays[measures[j].rightPoints]
                  /\ measures'[j].calculations = measures[j].calculations
    ]_vars

----------------------------------------------------------------------------
(* The page: calculate, saveToHistory, loadMeasurement (main-enhanced.js) *)

\* parseFloat(part) of a trimmed part
parseFloat(part) == IF "num" \in DOMAIN part THEN part.num ELSE NaN

\* parseXY(value): null for an empty text, for a text that has not two parts
\* and for a part that is no number
parseXY(value) ==
  IF value = EmptyField \/ Len(value) # 2 THEN Null
  ELSE LET x == parseFloat(value[1])
           y == parseFloat(value[2])
       IN  IF x = NaN \/ y = NaN THEN Null ELSE [x |-> x, y |-> y]

\* collectPoints(side): the points of the fields that parse
pointsOf(fields) ==
  LET parsed == [i \in 1..Len(fields) |-> parseXY(fields[i])]
  IN  SelectSeq(parsed, LAMBDA p : p # Null)

collectPoints(side) == pointsOf(inputs[side])

\* `${point.x}, ${point.y}`
FieldText(point) ==
  << IF point.x = NaN THEN Txt("NaN") ELSE Num(point.x),
     IF point.y = NaN THEN Txt("NaN") ELSE Num(point.y) >>

\* what the user types into the fields of a side
LeftTexts ==
  { << EmptyField, EmptyField >>,
    << FieldText(Pt(0, 0)), FieldText(Pt(100, 0)) >>,
    << FieldText(Pt(0, 0)), << Txt("abc"), Num(5) >> >> }

RightTexts ==
  { << EmptyField, EmptyField >>,
    << FieldText(Pt(0, 50)), FieldText(Pt(100, 50)) >> }

\* the handlers of the page are followed while the log and the current
\* project have room for what they add
HandlerFits ==
  /\ Len(history) < MaxSavedLog
  /\ currentProject # NoRef =>
       Len(heap[currentProject].measurements) < MaxMeasurements

\* the user fills the fields
enterInputs(left, right) ==
  /\ handler = Idle
  /\ inputs' = [left |-> left, right |-> right]
  /\ lastOp' = "input"
  /\ lastArg' = Null
  /\ lastResult' = Null
  /\ pre' = Null
  /\ UNCHANGED <<undoVars, heap, projects, currentProject, currentProjectId,
                 settings, notified, notifyVars, modelVars, room, timerVars,
                 lastCalculation, handlerArg, handler, storage, clock, scen>>

\* a click on the calculate button: calculate() is entered
calculateClick ==
  /\ handler = Idle
  /\ HandlerFits
  /\ handler' = "calculate"
  /\ lastOp' = "click"
  /\ lastArg' = Null
  /\ lastResult' = Null
  /\ pre' = Null
  /\ UNCHANGED <<undoVars, heap, projects, currentProject, currentProjectId,
                 settings, notified, notifyVars, modelVars, room, timerVars,
                 inputs, lastCalculation, handlerArg, storage, clock, scen>>

\* loadMeasurement(measurement), for a measurement that the history panel
\* took from the current project: the fields are made anew and filled, and
\* calculate() is entered
loadMeasurement(measurement) ==
  /\ handler = Idle
  /\ HandlerFits
  /\ inputs' =
       [left |-> [i \in 1..Len(measurement.leftPoints) |->
                    FieldText(measurement.leftPoints[i])],
        right |-> [i \in 1..Len(measurement.rightPoints) |->
                     FieldText(measurement.rightPoints[i])]]
  /\ handler' = "loadMeasurement"
  /\ lastOp' = "loadMeasurement"
  /\ lastArg' = Null
  /\ lastResult' = Null
  /\ pre' = Null
  /\ UNCHANGED <<undoVars, heap, projects, currentProject, currentProjectId,
                 settings, notified, notifyVars, modelVars, room, timerVars,
                 lastCalculation, handlerArg, storage, clock, scen>>

\* a step of the page that changes only where its handler is
pageStep(to, arg, op) ==
  /\ handler' = to
  /\ handlerArg' = arg
  /\ lastOp' = op
  /\ lastArg' = Null
  /\ lastResult' = Null
  /\ pre' = Null
  /\ UNCHANGED <<undoVars, heap, projects, currentProject, currentProjectId,
                 settings, notified, notifyVars, modelVars, room, timerVars,
                 inputs, lastCalculation, storage, clock, scen>>

\* calculate() that takes the snapshot only of fields that pass validation
saveStateForUndoWhenValid ==
  /\ handler \in {"calculate", "loadMeasurement"}
  /\ lastOp \in {"click", "loadMeasurement"}
  /\ IF Len(collectPoints("left")) >= 2 /\ Len(collectPoints("right")) >= 2
     THEN push([leftInputs |-> inputs.left, rightInputs |-> inputs.right],
               "CALCULATE")
     ELSE pageStep(handler, handlerArg, "push")

\* calculate(), first statement: saveStateForUndo() pushes the texts of the
\* fields
saveStateForUndo ==
  /\ handler \in {"calculate", "loadMeasurement"}
  /\ lastOp \in {"click", "loadMeasurement"}
  /\ push([leftInputs |-> inputs.left, rightInputs |-> inputs.right],
          "CALCULATE")

\* settings.autoSave is truthy
AutoSaveSetting == <<"autoSave", "true">> \in settings

\* calculate(), up to the auto-save: with fewer than two points on a side
\* it returns; else it keeps the calculation, and goes on to saveToHistory()
\* when settings.autoSave is set
appCalculate ==
  LET leftPoints  == collectPoints("left")
      rightPoints == collectPoints("right")
      enough      == Len(leftPoints) >= 2 /\ Len(rightPoints) >= 2
  IN  /\ handler \in {"calculate", "loadMeasurement"}
      /\ lastOp = "push"
      /\ lastCalculation' =
           IF enough
           THEN [leftPoints |-> leftPoints, rightPoints |-> rightPoints,
                 calculations |-> calculateMeasurements(leftPoints,
                                                        rightPoints)]
           ELSE lastCalculation
      /\ handler' = IF enough /\ AutoSaveSetting THEN handler ELSE Idle
      /\ lastOp' = "calculate"
      /\ lastArg' = Null
      /\ lastResult' = Bool(enough)
      /\ pre' = Null
      /\ UNCHANGED <<undoVars, heap, projects, currentProject,
                     currentProjectId, settings, notified, notifyVars,
                     modelVars, room, timerVars, inputs, handlerArg,
                     storage, clock, scen>>

\* the save button or Ctrl+S: saveToHistory() is entered, and returns at
\* once when nothing has been calculated
saveToHistoryClick ==
  /\ handler = Idle
  /\ HandlerFits
  /\ handler' = IF lastCalculation = Null THEN Idle ELSE "saveToHistory"
  /\ lastOp' = "saveToHistory"
  /\ lastArg' = Null
  /\ lastResult' = Bool(lastCalculation # Null)
  /\ pre' = Null
  /\ UNCHANGED <<undoVars, heap, projects, currentProject, currentProjectId,
                 settings, notified, notifyVars, modelVars, room, timerVars,
                 inputs, lastCalculation, handlerArg, storage, clock, scen>>

\* saveToHistory(), entered by the user or by calculate(): a new Measurement
\* of the calculation's points goes to StateManager.addMeasurement
saveToHistory ==
  /\ handler # Idle
  /\ lastOp \in {"calculate", "saveToHistory"}
  /\ addMeasurement(
       MeasurementObject("Measurement",
                         FreshIds(1, ObjectIds(heap) \cup UsedIds)[1],
                         lastCalculation.leftPoints,
                         lastCalculation.rightPoints))

\* the toast saveToHistory() ends with; added is what addMeasurement
\* returned
SavedToast(added) ==
  [phase |-> "toast", type |-> "success", message |-> "Saved to history",
   added |-> added]

\* saveToHistory(), last statements: persistenceManager.saveAll() and
\* toast.success('Saved to history'); the handler returns
saveToHistorySaveAll ==
  /\ handler # Idle
  /\ lastOp = "addMeasurement"
  /\ saveAllCall
  /\ handler' = Idle
  /\ scen' = SavedToast(lastResult = Bool(TRUE))
  /\ UNCHANGED <<timerVars, inputs, lastCalculation, handlerArg>>

\* the measurements of the current project, which the history panel lists
Listed ==
  IF currentProject = NoRef THEN {}
  ELSE Range(heap[currentProject].measurements)

NextPage ==
  \/ /\ handler = Idle
     /\ projects = <<>>
     /\ addProject(<<"a", "b", "c">>)
  \/ /\ handler = Idle
     /\ setCurrentProject(FirstNewId)
  \/ /\ handler = Idle
     /\ \E v \in {"true", "false"} : updateSettings({ <<"autoSave", v>> })
  \/ \E l \in LeftTexts, r \in RightTexts : enterInputs(l, r)
  \/ calculateClick
  \/ \E m \in Listed : loadMeasurement(m)
  \/ saveStateForUndo
  \/ appCalculate
  \/ saveToHistoryClick
  \/ saveToHistory
  \/ saveToHistorySaveAll

\* the page with its managers, one project, and the user at the fields and
\* the buttons
SpecPage == InitApp /\ [][NextPage]_vars

\* the number of measurements of some project changes in the step
MeasurementCountChanges ==
  \E r \in DOMAIN heap :
    /\ r \in DOMAIN heap'
    /\ Len(heap'[r].measurements) # Len(heap[r].measurements)

\* C29: a measurement is added to a project only when the user saves a
\* calculation with the save button or Ctrl+S; calculate(), the one that
\* loadMeasurement runs included, never changes the number of measurements
\* of any project.
C29_OnlyExplicitSaveAddsMeasurement ==
  [][ MeasurementCountChanges => handler = "saveToHistory" ]_vars

----------------------------------------------------------------------------
(* Who writes the store (HistoryPanel.js, PersistenceManager.js) *)

\* HistoryPanel.clearAll(), with the user's answer to confirm(): the
\* measurements of state.currentProject are replaced by an empty array, and
\* saveAll() follows; no method of the store is called
historyPanelClearAll(confirmed) ==
  LET held == IF currentProject = NoRef THEN <<>>
              ELSE heap[currentProject].measurements
      emptied == [heap EXCEPT ![currentProject].measurements = <<>>]
  IN  /\ rounds = <<>>
      /\ lastOp' = "HistoryPanel.clearAll"
      /\ lastArg' = Null
      /\ pre' = Null
      /\ lastResult' = Null
      /\ notified' = <<>>
      /\ IF held = <<>> \/ ~confirmed
         THEN UNCHANGED <<heap, storage>>
         ELSE /\ heap' = emptied
              /\ storage' = saveAll(storage, emptied, projects,
                                    currentProjectId, settings,
                                    SaveOutcome(storage, emptied, projects,
                                                currentProjectId, settings))
      /\ UNCHANGED <<undoVars, projects, currentProject, currentProjectId,
                     settings, notifyVars, modelVars, room, pageVars, clock,
                     scen>>

\* the methods of StateManager that write the state
StateManagerMethods ==
  { "addProject", "removeProject", "setCurrentProject",
    "updateCurrentProject", "updateSettings", "addMeasurement",
    "removeMeasurement", "clearAll", "loadState" }

\* the project list with the measurement list of each project,
\* currentProjectId and the settings
Written ==
  [projects |-> ProjectsJSON(heap, projects),
   currentProjectId |-> currentProjectId, settings |-> settings]

\* the step is a method of StateManager, or it is an importAllData that
\* changes the settings alone, which it hands to updateSettings
ByMethod ==
  \/ lastOp' \in StateManagerMethods
  \/ /\ lastOp' = "importAllData"
     /\ Written'.projects = Written.projects
     /\ Written'.currentProjectId = Written.currentProjectId

NextWriters ==
  \/ addProject(<<"a", "b", "c">>)
  \/ \E id \in {NoId, FirstNewId} : setCurrentProject(id)
  \/ \E m \in MeasurementInputs : m.id = 21 /\ addMeasurement(m)
  \/ removeMeasurement(21)
  \/ updateSettings({ <<"theme", "dark">> })
  \/ autoSave
  \/ \E d \in ImportDocs : importFile(d)
  \/ \E confirmed \in BOOLEAN : historyPanelClearAll(confirmed)

\* the store with the components of the page that hold it
SpecWriters == InitApp /\ [][NextWriters]_vars

\* C30: every change to the project list, to currentProjectId, to the
\* settings or to the measurement list of a project is made by a method of
\* StateManager, and a notification follows it; HistoryPanel and
\* PersistenceManager change none of them directly.
C30_OnlyStateManagerWrites ==
  [][ Written' # Written => ByMethod /\ notified' # <<>> ]_vars

----------------------------------------------------------------------------
(* The page is opened: LandCalculatorApp.init (main-enhanced.js) *)

DefaultProjectName ==
  << "D", "e", "f", "a", "u", "l", "t", " ",
     "P", "r", "o", "j", "e", "c", "t" >>

\* the project lists found in localStorage when the page is opened: lists
\* that saveAll() wrote, and one whose project has no id
StoredProjectLists ==
  { <<>>,
    << DocProject(1, <<"a", "b", "c">>) >>,
    << DocProject(1, <<"a", "b", "c">>), DocProject(2, <<"x", "x", "x">>) >>,
    << DocProject(NoId, <<"a", "b", "c">>) >> }

\* what localStorage holds when the page is opened
StoredContents ==
  [version : { <<>>, <<appVersion>> },
   projects : { <<>> } \cup { <<l>> : l \in StoredProjectLists }
                \cup { << <<>>, "cut" >> },
   currentProjectId : { <<>>, <<NoId>>, <<1>>, <<2>> },
   settings : { <<>>, << { <<"theme", "dark">> } >> },
   undoHistory : { <<>> }]

\* the managers are new, and localStorage holds what earlier visits left
InitOpened ==
  /\ NewManager(DefaultMaxHistory)
  /\ InitManagers
  /\ storage \in StoredContents
\* the constructor calls init()
openPage ==
  /\ handler = Idle
  /\ lastOp = "new"
  /\ pageStep("init", NoId, "open")

\* init(): persistenceManager.loadAll()
initLoadAll ==
  /\ handler = "init"
  /\ lastOp = "open"
  /\ loadAll

\* init(): the test for projects and for a current project
initProjects ==
  /\ handler = "init"
  /\ lastOp = "loadAll"
  /\ pageStep(CASE projects = <<>> -> "init.default"
                [] projects # <<>> /\ currentProject = NoRef -> "init.first"
                [] OTHER -> "init.components",
              NoId, "init")

\* init(), no projects: stateManager.addProject(defaultProject)
initAddDefault ==
  /\ handler = "init.default"
  /\ lastOp = "init"
  /\ addProject(DefaultProjectName)

\* init(), no projects: stateManager.setCurrentProject(defaultProject.id)
initSetDefault ==
  /\ handler = "init.default"
  /\ lastOp = "addProject"
  /\ setCurrentProject(IF lastResult = Bool(TRUE)
                       THEN heap[projects[Len(projects)]].id
                       ELSE generateUUID)

\* init(), no projects: persistenceManager.saveAll()
initSaveAll ==
  /\ handler = "init.default"
  /\ lastOp = "setCurrentProject"
  /\ autoSave

\* init(), projects but no current one:
\* stateManager.setCurrentProject(firstProject.id)
initSetFirst ==
  /\ handler = "init.first"
  /\ lastOp = "init"
  /\ setCurrentProject(heap[projects[1]].id)

\* the projects of init() are done with
ProjectsDone ==
  \/ handler = "init.components"
  \/ handler = "init.first" /\ lastOp = "setCurrentProject"
  \/ handler = "init.default" /\ lastOp = "saveAll"

\* what the page subscribes to the store: handleStateChange
PageListener == 1

\* init(): stateManager.subscribe(this.handleStateChange.bind(this))
initSubscribe ==
  /\ ProjectsDone
  /\ listeners = <<>>
  /\ subscribe(PageListener)

\* init() has made the components and the input fields, and returns
initReturns ==
  /\ ProjectsDone
  /\ listeners # <<>>
  /\ handler' = Idle
  /\ inputs' = NoInputs
  /\ lastOp' = "init"
  /\ lastArg' = Null
  /\ lastResult' = Null
  /\ pre' = Null
  /\ UNCHANGED <<undoVars, heap, projects, currentProject, currentProjectId,
                 settings, notified, notifyVars, modelVars, room, timerVars,
                 lastCalculation, handlerArg, storage, clock, scen>>

NextInit ==
  \/ openPage
  \/ initLoadAll
  \/ initProjects
  \/ initAddDefault
  \/ initSetDefault
  \/ initSaveAll
  \/ initSetFirst
  \/ initSubscribe
  \/ initReturns

\* the page is opened on a localStorage that holds anything
SpecInit == InitOpened /\ [][NextInit]_vars

\* init() has returned
Initialized == handler = Idle /\ lastOp = "init"

\* C31: after init() has completed, whatever localStorage held, the store
\* has at least one project and the current project is one of the store's
\* projects.
C31_InitLeavesCurrentProject ==
  Initialized =>
    /\ Len(projects) >= 1
    /\ currentProject # NoRef
    /\ \E i \in 1..Len(projects) : projects[i] = currentProject

----------------------------------------------------------------------------
(* ProjectSelector: switchProject, deleteProject (part_001) *)

\* a handler of the selector is entered for a project id; scen keeps what
\* the store held then
selectorClick(to, arg, op) ==
  /\ handler' = to
  /\ handlerArg' = arg
  /\ scen' = [phase |-> op, id |-> arg, wasCurrent |-> currentProjectId = arg,
              stays |-> to = Idle]
  /\ lastOp' = "click"
  /\ lastArg' = Null
  /\ lastResult' = Null
  /\ pre' = Null
  /\ UNCHANGED <<undoVars, heap, projects, currentProject, currentProjectId,
                 settings, notified, notifyVars, modelVars, room, timerVars,
                 inputs, lastCalculation, storage, clock>>

\* the handler ends with persistenceManager.saveAll()
selectorSaveAll ==
  /\ saveAllCall
  /\ handler' = Idle
  /\ handlerArg' = NoId
  /\ UNCHANGED <<timerVars, inputs, lastCalculation, scen>>

\* switchProject(projectId) is called for an entry of the list
switchProjectClick(projectId) ==
  /\ handler = Idle
  /\ selectorClick("switchProject", projectId, "switchProject")

\* switchProject: stateManager.setCurrentProject(projectId)
switchProject ==
  /\ handler = "switchProject"
  /\ lastOp = "click"
  /\ setCurrentProject(handlerArg)

\* switchProject: saveAll() when the switch succeeded; the projectChanged
\* event that is dispatched has no listener
switchProjectRest ==
  /\ handler = "switchProject"
  /\ lastOp = "setCurrentProject"
  /\ IF lastResult = Bool(TRUE)
     THEN selectorSaveAll
     ELSE pageStep(Idle, NoId, "switchProject")

\* deleteProject(projectId), with the user's answer to confirm(): it returns
\* when the store has no such project or the user declines
deleteProjectClick(projectId, confirmed) ==
  /\ handler = Idle
  /\ selectorClick(IF getProject(heap, projects, projectId) = NoRef
                      \/ ~confirmed
                   THEN Idle ELSE "deleteProject",
                   projectId, "deleteProject")

\* deleteProject: stateManager.removeProject(projectId)
deleteProject ==
  /\ handler = "deleteProject"
  /\ lastOp = "click"
  /\ removeProject(handlerArg)

\* deleteProject, after removeProject succeeded: the store is asked whether
\* its currentProjectId is the deleted id
SwitchDue ==
  /\ lastOp = "removeProject"
  /\ lastResult = Bool(TRUE)
  /\ currentProjectId = handlerArg
  /\ projects # <<>>

\* deleteProject, after removeProject: setCurrentProject(projects[0].id) when
\* the switch is due, then saveAll(); nothing when removeProject failed
deleteProjectRest ==
  /\ handler = "deleteProject"
  /\ lastOp \in {"removeProject", "setCurrentProject"}
  /\ CASE SwitchDue -> setCurrentProject(heap[projects[1]].id)
       [] ~SwitchDue /\ lastOp = "removeProject"
            /\ lastResult = Bool(FALSE) ->
              pageStep(Idle, NoId, "deleteProject")
       [] OTHER -> selectorSaveAll

NextSelector ==
  \/ /\ handler = Idle
     /\ \E name \in NotifyNames : addProject(name)
  \/ /\ handler = Idle
     /\ Len(history) < MaxSavedLog
     /\ push(SavedSnapshot, "CALCULATE")
  \/ \E id \in {FirstNewId, FirstNewId + 1} : switchProjectClick(id)
  \/ switchProject
  \/ switchProjectRest
  \/ \E id \in {FirstNewId, FirstNewId + 1}, confirmed \in BOOLEAN :
        deleteProjectClick(id, confirmed)
  \/ deleteProject
  \/ deleteProjectRest

\* the store and the undo log under the project selector
SpecSelector == InitApp /\ [][NextSelector]_vars

\* a handler of the selector has returned after its saveAll()
Returned(op) ==
  /\ handler = Idle
  /\ lastOp = "saveAll"
  /\ scen.phase = op

\* C32: once the deletion of the current project has completed, a current
\* project is selected: another project of the store, or a default project
\* when none remained.
C32_DeleteSelectsAnotherProject ==
  (Returned("deleteProject") /\ scen.wasCurrent) =>
    /\ currentProject # NoRef
    /\ \E i \in 1..Len(projects) : projects[i] = currentProject

\* C33: when a switch to another project has succeeded, the undo log is
\* empty, and neither undo nor redo is available.
C33_SwitchClearsUndoLog ==
  (Returned("switchProject") /\ ~scen.wasCurrent) =>
    /\ history = <<>>
    /\ ~canUndo
    /\ ~canRedo

----------------------------------------------------------------------------
(* The page: undo, redo, restoreState (main-enhanced.js) *)

\* the user types a text into the last field of a side
typeInto(side, text) ==
  /\ handler = Idle
  /\ inputs[side][Len(inputs[side])] # text
  /\ inputs' = [inputs EXCEPT ![side][Len(inputs[side])] = text]
  /\ lastOp' = "input"
  /\ lastArg' = Null
  /\ lastResult' = Null
  /\ pre' = Null
  /\ UNCHANGED <<undoVars, heap, projects, currentProject, currentProjectId,
                 settings, notified, notifyVars, modelVars, room, timerVars,
                 lastCalculation, handlerArg, handler, storage, clock, scen>>

\* addInputField(side): createInputs(side, count + 1) keeps the values and
\* adds an empty field; the page allows ten, the model MaxPoints
addInputField(side) ==
  /\ handler = Idle
  /\ Len(inputs[side]) < MaxPoints
  /\ inputs' = [inputs EXCEPT ![side] = Append(@, EmptyField)]
  /\ lastOp' = "addInputField"
  /\ lastArg' = Null
  /\ lastResult' = Null
  /\ pre' = Null
  /\ UNCHANGED <<undoVars, heap, projects, currentProject, currentProjectId,
                 settings, notified, notifyVars, modelVars, room, timerVars,
                 lastCalculation, handlerArg, handler, storage, clock, scen>>

\* the undo or the redo button
undoRedoClick(which) ==
  /\ handler = Idle
  /\ pageStep(which, NoId, "click")

\* undo(): this.undoRedoManager.undo()
appUndo ==
  /\ handler = "undo"
  /\ lastOp = "click"
  /\ undo

\* redo(): this.undoRedoManager.redo()
appRedo ==
  /\ handler = "redo"
  /\ lastOp = "click"
  /\ redo

\* the fields of a side after restoreState: the fields that exist take the
\* values of the snapshot that have their index
restoredFields(fields, values) ==
  [i \in 1..Len(fields) |-> IF i <= Len(values) THEN values[i] ELSE fields[i]]

\* undo() and redo(), after the manager returned: restoreState(state) when
\* there is an entry
restoreState ==
  /\ handler \in {"undo", "redo"}
  /\ lastOp \in {"undo", "redo"}
  /\ IF lastResult = Null
     THEN pageStep(Idle, NoId, "return")
     ELSE LET state == lastResult.state
              left == restoredFields(inputs.left, state.leftInputs)
              right == restoredFields(inputs.right, state.rightInputs)
              leftPoints == pointsOf(left)
              rightPoints == pointsOf(right)
          IN  /\ inputs' = [left |-> left, right |-> right]
              /\ lastCalculation' =
                   IF Len(leftPoints) >= 2 /\ Len(rightPoints) >= 2
                   THEN [leftPoints |-> leftPoints,
                         rightPoints |-> rightPoints,
                         calculations |->
                           calculateMeasurements(leftPoints, rightPoints)]
                   ELSE lastCalculation
              /\ handler' = Idle
              /\ lastOp' = "restoreState"
              /\ lastArg' = lastResult
              /\ lastResult' = Null
              /\ pre' = Null
              /\ UNCHANGED <<undoVars, heap, projects, currentProject,
                             currentProjectId, settings, notified,
                             notifyVars, modelVars, room, timerVars,
                             handlerArg, storage, clock, scen>>

NextRestore ==
  \/ \E text \in {EmptyField, FieldText(Pt(100, 0))} : typeInto("left", text)
  \/ addInputField("left")
  \/ calculateClick
  \/ saveStateForUndo
  \/ appCalculate
  \/ \E which \in {"undo", "redo"} : undoRedoClick(which)
  \/ appUndo
  \/ appRedo
  \/ restoreState

\* the page with its fields, the calculate button and undo and redo
SpecRestore == InitApp /\ [][NextRestore]_vars

\* C34: after undo() or redo() has restored an entry, the fields of the left
\* and of the right side are the snapshot's lists: as many fields a side,
\* and the same text in each.
C34_RestoreIsComplete ==
  lastOp = "restoreState" =>
    /\ inputs.left = lastArg.state.leftInputs
    /\ inputs.right = lastArg.state.rightInputs

\* calculate() runs: from its call to its return
InCalculate == handler \in {"calculate", "loadMeasurement"}

\* calculate() is about to run its first statement
CalculateInvoked == InCalculate /\ lastOp \in {"click", "loadMeasurement"}

\* the step adds one entry with the texts of the fields, behind the entries
\* up to the cursor, to a log that drops its oldest entry when it is full
PushesTheFields ==
  LET kept  == SubSeq(history, 1, currentIndex + 1)
      added == Len(kept) + 1
      texts == [leftInputs |-> inputs.left, rightInputs |-> inputs.right]
  IN  /\ Len(history') = Min(added, maxHistory)
      /\ \A i \in 1..(Len(history') - 1) :
           history'[i] = kept[i + added - Len(history')]
      /\ history'[Len(history')].state = texts
      /\ history'[Len(history')].action = "CALCULATE"
      /\ currentIndex' = Len(history') - 1

SavedReported ==
  /\ scen.phase = "toast"
  /\ scen.type = "success"
  /\ scen.message = "Saved to history"

\* C36: the page reports 'Saved to history' only when addMeasurement has
\* added the measurement; when the store rejects it (no current project, a
\* measurement that is not valid) no success is reported.
C36_SavedOnlyWhenAdded ==
  SavedReported => scen.added

\* an operation with one notifyListeners call has returned: its round of
\* listener calls is over
RoundOver ==
  /\ rounds = <<>>
  /\ outer # Null
  /\ Len(outer.tags) = 1

\* the calls that the round made of a listener
CallsOf(listener) ==
  { k \in 1..Len(outer.delivered) : outer.delivered[k].listener = listener }

\* C37: in one notification round every listener that was subscribed when
\* the round began and was not unsubscribed during it is called exactly
\* once, also when another listener unsubscribes itself from within its
\* callback.
C37_RoundCallsEachListenerOnce ==
  RoundOver =>
    \A i \in 1..Len(outer.subscribed) :
      Cardinality(CallsOf(outer.subscribed[i])) = 1

\* C38: in every state that push, undo, redo, clear and deserialize reach,
\* the undo log holds at most maxHistory entries.
C38_LogWithinMaxHistory ==
  Len(history) <= maxHistory

\* the ids of the projects that loadProjects() finds in storage
StoredProjectIds ==
  { loadProjects(storage)[i].id : i \in 1..Len(loadProjects(storage)) }

\* C39: whenever saveAll() has returned, with success or after a write that
\* failed, the current project id in storage is empty or the id of a project
\* in the stored list of projects, so that a loadAll() that follows finds
\* the current project among the projects it loads.
C39_StoredCurrentIdResolves ==
  lastOp = "saveAll" =>
    \/ loadCurrentProjectId(storage) = NoId
    \/ loadCurrentProjectId(storage) \in StoredProjectIds

====
